---- MODULE Spec2Model ----
(***************************************************************************)
(* Verification model of the qaos agent-driven browser execution core:     *)
(*   - the remote (hybrid) execution adapter and its command correlation   *)
(*     (services/local-execution-adapter.server.ts, executor-connect,      *)
(*     executor-result, local-executor-registry),                          *)
(*   - the in-process BrowserManager (services/browser.server.ts),         *)
(*   - the agent action loop of a chat turn (handlers/api/test-session.tsx)*)
(*     and of a replay (handlers/api/replay.tsx) with the stop endpoint    *)
(*     (handlers/api/stop-session.tsx).                                    *)
(* Every await of the TypeScript code is a step boundary: what runs        *)
(* between two awaits is one atomic action of the single-threaded event    *)
(* loop.                                                                   *)
(***************************************************************************)
EXTENDS Integers, Sequences, FiniteSets, TLC

\* ------------------------------------------------------------------ bounds
\* Number of remote commands that may be dispatched in one behaviour.
MaxSteps == 2
\* Number of executor streams that may connect in one behaviour.
MaxConns == 2

\* Number of session ids, of concurrently running BrowserManager calls, of browsers
\* that may be launched in one behaviour, and of distinct page URLs.
MaxSessions == 1
MaxCalls == 2
MaxBrowsers == 2
MaxUrls == 1

\* Number of run ids (sessions) served through one executor, and of frames that may
\* wait unread on its stream.
MaxRunIds == 2
MaxInbox == 2

\* Number of console errors (occurrences) the pages emit in one behaviour.
MaxErrors == 2

\* Number of clock readings (Date.now() values) that follow the first.
MaxTime == 6

\* Number of characters a raw model reply may have beyond the quoted snippet.
MaxOverflow == 1

\* Number of getExecutionAdapter calls recorded in one behaviour.
MaxRouted == 2

\* Number of concurrently served chat requests, and of prompt steps in a replayed test.
MaxRuns == 2
MaxReplaySteps == 2

\* Per-turn and per-replay-step action budgets of the agent loop.
MAX_ACTIONS == 8
MAX_ACTIONS_PER_STEP == 10

StepIds == 0..(MaxSteps - 1)
\* Step ids a result frame may carry: every allocated id and one never allocated.
ResultIds == 0..MaxSteps
Conns == 1..MaxConns
NoStream == 0
NoStep == -1
\* sendCommand's default for timeoutMs; no caller in the adapter passes another value.
DefaultTimeoutMs == 30000
\* services/browser.server.ts lines 23-24, in milliseconds.
IDLE_TIMEOUT_MS == 300000
GC_INTERVAL_MS == 60000

VARIABLES
    \* --- remote adapter (LocalExecutionAdapter) and registry
    activeStream,      \* the transport slot: NoStream or the connection whose send function is held
    pendingRequests,   \* keys of the pendingRequests map
    timers,            \* step ids whose setTimeout handle is armed
    timeoutMs,         \* per step id: the delay its timer was armed with (0: no timer yet)
    stepCounter,       \* next step number
    promise,           \* per step id: state of the promise sendCommand returned
    settleCalls,       \* per step id: how many times resolve/reject was invoked
    outbox,            \* frames enqueued on executor streams that are still open
    streamState,       \* per connection: "new", "open" or "aborted"
    connected,         \* registry flag
    lastCall           \* the last operation invoked on the adapter and its immediate outcome

VARIABLES
    \* --- in-process BrowserManager
    sessions,          \* the sessions map: session id -> handle (browser id) or NoHandle
    browser,           \* per browser id: the launched browser, its page and the session record made for it
    call,              \* per call slot: an invocation of a BrowserManager method and its local variables
    displayMissing     \* process.platform === 'linux' && !process.env.DISPLAY

VARIABLES
    \* --- the idle collector of the BrowserManager
    sweep              \* the collectIdle call in flight, and when the interval timer last fired

VARIABLES
    \* --- an observation call of the remote adapter
    remoteCall         \* the getSimplifiedDOM or captureScreenshot call of LocalExecutionAdapter
                       \* that is awaiting its command, or the last one that ended

VARIABLES
    \* --- the replay page in the user's browser
    replayClient       \* its currentReplayId state, and whether it has posted a stop

VARIABLES
    \* --- local executor process (bin/local-executor.ts)
    inbox,             \* frames of the executor stream the process has not read yet, in order
    executorBrowser,   \* the module variable browser: "none" (null) or "running"
    executorPage,      \* the module variable page
    currentRunId,      \* the module variable currentRunId
    sentResult         \* the last run.action_result the process posted

VARIABLES
    \* --- console errors, as both adapters hold and return them
    consoleErrors,     \* in-process, per browser id: the consoleErrors array of its session record
    lastObservation,   \* remote: the lastObservation field of LocalExecutionAdapter
    errorCount,        \* console errors emitted so far (the next one gets the next number)
    consoleReturned,   \* per adapter: what its last getConsoleErrors call returned
    consoleReported,   \* per adapter: every error some getConsoleErrors call has returned
    consoleRepeated    \* per adapter: errors of the last call that an earlier call had returned

VARIABLES
    \* --- executor registry (local-executor-registry.server.ts), besides connected
    lastSeenAt,        \* the module variable lastSeenAt: Never (null) or a clock reading
    now                \* what Date.now() returns

VARIABLES
    \* --- functions of the loop and of the services, applied to drawn inputs
    secretPair,        \* one loop iteration run twice, with two sets of secret values
    parseRun,          \* one call of parseAction: the raw reply and what the call did
    deploymentMode,    \* qaosConfig.deploymentMode
    routed             \* what the calls of getExecutionAdapter returned, oldest first

VARIABLES
    \* --- agent loop
    tests,             \* the status column of the tests table, per row
    run                \* per request: the background task of a chat turn or of a replay

remoteVars == <<activeStream, pendingRequests, timers, timeoutMs, stepCounter, promise,
                settleCalls, outbox, streamState, connected, lastCall>>

browserVars == <<sessions, browser, call, displayMissing>>

gcVars == <<sweep>>

awaitVars == <<remoteCall>>

clientVars == <<replayClient>>

loopVars == <<tests, run>>

executorVars == <<inbox, executorBrowser, executorPage, currentRunId, sentResult>>

functionVars == <<secretPair, parseRun, deploymentMode, routed>>

registryVars == <<lastSeenAt, now>>

consoleVars == <<consoleErrors, lastObservation, errorCount, consoleReturned,
                 consoleReported, consoleRepeated>>

\* What an action of one component leaves alone: the other components' state.
nonRemoteVars == <<browserVars, loopVars, executorVars, consoleVars, functionVars, registryVars, gcVars, awaitVars, clientVars>>
nonBrowserVars == <<remoteVars, loopVars, executorVars, consoleVars, functionVars, registryVars, gcVars, awaitVars, clientVars>>
nonLoopVars == <<remoteVars, browserVars, executorVars, consoleVars, functionVars, registryVars, gcVars, awaitVars, clientVars>>
nonExecutorVars == <<remoteVars, browserVars, loopVars, consoleVars, functionVars, registryVars, gcVars, awaitVars, clientVars>>
nonConsoleVars == <<remoteVars, browserVars, loopVars, executorVars, functionVars, registryVars, gcVars, awaitVars, clientVars>>
\* What the connect endpoint leaves alone besides the adapter's own fields.
nonRemoteNonRegistryVars == <<browserVars, loopVars, executorVars, consoleVars, functionVars, gcVars, awaitVars, clientVars>>
nonFunctionVars == <<remoteVars, browserVars, loopVars, executorVars, consoleVars, registryVars, gcVars, awaitVars, clientVars>>

vars == <<activeStream, pendingRequests, timers, timeoutMs, stepCounter, promise,
          settleCalls, outbox, streamState, connected, lastCall,
          sessions, browser, call, displayMissing, tests, run,
          inbox, executorBrowser, executorPage, currentRunId, sentResult,
          consoleErrors, lastObservation, errorCount, consoleReturned,
          consoleReported, consoleRepeated, secretPair, parseRun, deploymentMode, routed,
          lastSeenAt, now, sweep, remoteCall, replayClient>>

\* ------------------------------------------------------- remote adapter

\* The JavaScript value undefined.
Undefined == [type |-> "undefined", v |-> ""]

\* Console errors are numbered in the order the pages emit them.
ErrorIds == 1..MaxErrors
Adapters == {"in-process", "remote"}
\* An optional string[] field: not present, or present with a list.
Absent == [present |-> FALSE, list |-> {}]
Present(errs) == [present |-> TRUE, list |-> errs]

\* A getConsoleErrors call of adapter ad returns the list errs to the loop.
returns(ad, errs) ==
    /\ consoleReturned' = [consoleReturned EXCEPT ![ad] = errs]
    /\ consoleRepeated' = [consoleRepeated EXCEPT ![ad] = errs \cap consoleReported[ad]]
    /\ consoleReported' = [consoleReported EXCEPT ![ad] = @ \cup errs]

\* The frame a sendMsg closure enqueues on stream c; enqueue on a closed
\* controller throws and the closure swallows it.
sendMsg(c, frame) ==
    IF streamState[c] = "open" THEN outbox \cup {frame} ELSE outbox

Frame(c, type, stepId) == [conn |-> c, type |-> type, stepId |-> stepId]

Call(op, outcome) == [op |-> op, outcome |-> outcome]

\* A promise takes the first settlement only; later resolve/reject calls are no-ops
\* on its state but are counted.
Settle(p, s, outcome) == [p EXCEPT ![s] = IF @ = "pending" THEN outcome ELSE @]

\* lastSeenAt = null
Never == -1

\* markLocalExecutorConnected()
markLocalExecutorConnected ==
    /\ connected' = TRUE
    /\ lastSeenAt' = now

\* Variant of markLocalExecutorDisconnected that also forgets when the executor was
\* last seen.
markLocalExecutorDisconnectedResets ==
    /\ connected' = FALSE
    /\ lastSeenAt' = Never

\* markLocalExecutorDisconnected()
markLocalExecutorDisconnected ==
    /\ connected' = FALSE
    /\ UNCHANGED lastSeenAt

\* touchLocalExecutorHeartbeat()
touchLocalExecutorHeartbeat ==
    /\ connected' = TRUE
    /\ lastSeenAt' = now

\* registerConnection(sendMsgFn)
registerConnection(c) == activeStream' = c

\* Variant of disconnect that rejects the pending requests without clearTimeout.
disconnectKeepsTimers ==
    /\ activeStream' = NoStream
    /\ timers' = timers
    /\ promise' = [s \in StepIds |->
                     IF s \in pendingRequests /\ promise[s] = "pending"
                     THEN "rejected_disconnected" ELSE promise[s]]
    /\ settleCalls' = [s \in StepIds |->
                     IF s \in pendingRequests THEN settleCalls[s] + 1 ELSE settleCalls[s]]
    /\ pendingRequests' = {}

\* disconnect(): empty the slot, clear every timer, reject every pending request.
disconnect ==
    /\ activeStream' = NoStream
    /\ timers' = timers \ pendingRequests
    /\ promise' = [s \in StepIds |->
                     IF s \in pendingRequests /\ promise[s] = "pending"
                     THEN "rejected_disconnected" ELSE promise[s]]
    /\ settleCalls' = [s \in StepIds |->
                     IF s \in pendingRequests THEN settleCalls[s] + 1 ELSE settleCalls[s]]
    /\ pendingRequests' = {}

\* Variant of handleResult that forgets clearTimeout(req.timer).
handleResultKeepsTimer(stepId, ok) ==
    IF stepId \in pendingRequests
    THEN /\ timers' = timers
         /\ pendingRequests' = pendingRequests \ {stepId}
         /\ promise' = Settle(promise, stepId, IF ok THEN "resolved" ELSE "rejected_failed")
         /\ settleCalls' = [settleCalls EXCEPT ![stepId] = @ + 1]
         /\ lastCall' = Call("handleResult", IF ok THEN "resolved" ELSE "rejected")
    ELSE /\ UNCHANGED <<timers, pendingRequests, promise, settleCalls>>
         /\ lastCall' = Call("handleResult", "ignored")

\* Variant of handleResult that empties the whole map instead of deleting one key.
handleResultClearsAll(stepId, ok) ==
    IF stepId \in pendingRequests
    THEN /\ timers' = timers \ {stepId}
         /\ pendingRequests' = {}
         /\ promise' = Settle(promise, stepId, IF ok THEN "resolved" ELSE "rejected_failed")
         /\ settleCalls' = [settleCalls EXCEPT ![stepId] = @ + 1]
         /\ lastCall' = Call("handleResult", IF ok THEN "resolved" ELSE "rejected")
    ELSE /\ UNCHANGED <<timers, pendingRequests, promise, settleCalls>>
         /\ lastCall' = Call("handleResult", "ignored")

\* handleResult(stepId, ok, data, error)
handleResult(stepId, ok) ==
    IF stepId \in pendingRequests
    THEN /\ timers' = timers \ {stepId}
         /\ pendingRequests' = pendingRequests \ {stepId}
         /\ promise' = Settle(promise, stepId, IF ok THEN "resolved" ELSE "rejected_failed")
         /\ settleCalls' = [settleCalls EXCEPT ![stepId] = @ + 1]
         /\ lastCall' = Call("handleResult", IF ok THEN "resolved" ELSE "rejected")
    ELSE /\ UNCHANGED <<timers, pendingRequests, promise, settleCalls>>
         /\ lastCall' = Call("handleResult", "ignored")

\* Variant of the timer callback that rejects but leaves the map entry in place.
timerCallbackKeepsEntry(stepId) ==
    /\ timers' = timers \ {stepId}
    /\ pendingRequests' = pendingRequests
    /\ promise' = Settle(promise, stepId, "rejected_timeout")
    /\ settleCalls' = [settleCalls EXCEPT ![stepId] = @ + 1]

\* The setTimeout callback of sendCommand.
timerCallback(stepId) ==
    /\ timers' = timers \ {stepId}
    /\ pendingRequests' = pendingRequests \ {stepId}
    /\ promise' = Settle(promise, stepId, "rejected_timeout")
    /\ settleCalls' = [settleCalls EXCEPT ![stepId] = @ + 1]

\* Variant of sendCommand that registers the request before looking at the transport.
sendCommandRegistersFirst(op, actionName) ==
    /\ stepCounter < MaxSteps
    /\ LET stepId == stepCounter IN
       /\ stepCounter' = stepCounter + 1
       /\ timers' = timers \cup {stepId}
       /\ timeoutMs' = [timeoutMs EXCEPT ![stepId] = DefaultTimeoutMs]
       /\ pendingRequests' = pendingRequests \cup {stepId}
       /\ promise' = [promise EXCEPT ![stepId] = "pending"]
       /\ outbox' = IF activeStream = NoStream THEN outbox
                    ELSE sendMsg(activeStream, Frame(activeStream, "run.next_action", stepId))
       /\ lastCall' = Call(op, IF activeStream = NoStream THEN "ConnectivityError" ELSE "awaiting")
       /\ UNCHANGED settleCalls

\* Variant of getSimplifiedDOM / sendCommand that answers with an empty result
\* when no transport is attached.
sendCommandReturnsEmpty(op, actionName) ==
    IF activeStream = NoStream
    THEN /\ lastCall' = Call(op, "returned")
         /\ UNCHANGED <<pendingRequests, timers, timeoutMs, stepCounter, promise, settleCalls, outbox>>
    ELSE /\ stepCounter < MaxSteps
         /\ LET stepId == stepCounter IN
            /\ stepCounter' = stepCounter + 1
            /\ timers' = timers \cup {stepId}
            /\ timeoutMs' = [timeoutMs EXCEPT ![stepId] = DefaultTimeoutMs]
            /\ pendingRequests' = pendingRequests \cup {stepId}
            /\ promise' = [promise EXCEPT ![stepId] = "pending"]
            /\ outbox' = sendMsg(activeStream,
                                 Frame(activeStream, "run.next_action", stepId))
            /\ lastCall' = Call(op, "awaiting")
            /\ UNCHANGED settleCalls

\* Variant of sendCommand that registers the request without arming a timer.
sendCommandUntimed(op, actionName) ==
    IF activeStream = NoStream
    THEN /\ lastCall' = Call(op, "ConnectivityError")
         /\ UNCHANGED <<pendingRequests, timers, timeoutMs, stepCounter, promise, settleCalls, outbox>>
    ELSE /\ stepCounter < MaxSteps
         /\ LET stepId == stepCounter IN
            /\ stepCounter' = stepCounter + 1
            /\ pendingRequests' = pendingRequests \cup {stepId}
            /\ promise' = [promise EXCEPT ![stepId] = "pending"]
            /\ outbox' = sendMsg(activeStream,
                                 Frame(activeStream, "run.next_action", stepId))
            /\ lastCall' = Call(op, "awaiting")
            /\ UNCHANGED <<timers, timeoutMs, settleCalls>>

\* sendCommand(sessionId, actionName, args, timeoutMs), called by operation op.
sendCommand(op, actionName) ==
    IF activeStream = NoStream
    THEN /\ lastCall' = Call(op, "ConnectivityError")
         /\ UNCHANGED <<pendingRequests, timers, timeoutMs, stepCounter, promise, settleCalls, outbox>>
    ELSE /\ stepCounter < MaxSteps
         /\ LET stepId == stepCounter IN
            /\ stepCounter' = stepCounter + 1
            /\ timers' = timers \cup {stepId}
            /\ timeoutMs' = [timeoutMs EXCEPT ![stepId] = DefaultTimeoutMs]
            /\ pendingRequests' = pendingRequests \cup {stepId}
            /\ promise' = [promise EXCEPT ![stepId] = "pending"]
            /\ outbox' = sendMsg(activeStream,
                                 Frame(activeStream, "run.next_action", stepId))
            /\ lastCall' = Call(op, "awaiting")
            /\ UNCHANGED settleCalls

\* --- operations of the adapter contract
GetPage(hasUrl) ==
    /\ IF hasUrl
       THEN sendCommand("getPage", "goto")
       ELSE /\ lastCall' = Call("getPageNoUrl", "returned")
            /\ UNCHANGED <<pendingRequests, timers, timeoutMs, stepCounter, promise, settleCalls, outbox>>
    /\ UNCHANGED <<activeStream, streamState, connected>>
    /\ UNCHANGED nonRemoteVars

CaptureScreenshot ==
    /\ sendCommand("captureScreenshot", "getScreenshot")
    /\ UNCHANGED <<activeStream, streamState, connected>>
    /\ UNCHANGED nonRemoteVars

GetSimplifiedDOM ==
    /\ sendCommand("getSimplifiedDOM", "getDOM")
    /\ UNCHANGED <<activeStream, streamState, connected>>
    /\ UNCHANGED nonRemoteVars

\* getConsoleErrors(sessionId): this.lastObservation.console || []
GetConsoleErrors ==
    /\ lastCall' = Call("getConsoleErrors", "returned")
    /\ returns("remote", lastObservation.console.list)
    /\ UNCHANGED <<activeStream, pendingRequests, timers, timeoutMs, stepCounter, promise,
                   settleCalls, outbox, streamState, connected>>
    /\ UNCHANGED <<consoleErrors, lastObservation, errorCount>>
    /\ UNCHANGED <<browserVars, loopVars, executorVars, functionVars, registryVars, gcVars,
                   awaitVars, clientVars>>

BrowserActions == {"navigate", "click", "type", "scroll"}

ExecuteAction(a) ==
    /\ sendCommand("executeAction", a)
    /\ UNCHANGED <<activeStream, streamState, connected>>
    /\ UNCHANGED nonRemoteVars

CloseSession ==
    /\ outbox' = IF activeStream # NoStream
                 THEN sendMsg(activeStream, Frame(activeStream, "run.stop", NoStep))
                 ELSE outbox
    /\ lastCall' = Call("closeSession", "returned")
    /\ UNCHANGED <<activeStream, pendingRequests, timers, timeoutMs, stepCounter, promise,
                   settleCalls, streamState, connected>>
    /\ UNCHANGED nonRemoteVars

\* --- the executor's endpoints and the runtime's timers
\* GET /api/executor/connect: ReadableStream start().
ExecutorConnect(c) ==
    /\ streamState[c] = "new"
    /\ \A b \in Conns : b < c => streamState[b] # "new"   \* connections are numbered as they arrive
    /\ streamState' = [streamState EXCEPT ![c] = "open"]
    /\ markLocalExecutorConnected
    /\ registerConnection(c)
    /\ outbox' = outbox \cup {Frame(c, "executor.hello", NoStep)}
    /\ lastCall' = Call("registerConnection", "returned")
    /\ UNCHANGED <<pendingRequests, timers, timeoutMs, stepCounter, promise, settleCalls>>
    /\ UNCHANGED <<now, nonRemoteNonRegistryVars>>

\* No observation call has been made.  field is the field of the command's result the
\* call reads, before whether lastObservation held that field when the call began.
NoRemoteCall == [op |-> "none", pc |-> "idle", stepId |-> NoStep, field |-> "none",
                 before |-> FALSE, result |-> "none"]

\* The command each observation call sends and the field of the result it reads
\* (lines 110-113 and 119-122).
ObservationCalls ==
    {[op |-> "getSimplifiedDOM", actionName |-> "getDOM", field |-> "dom"],
     [op |-> "captureScreenshot", actionName |-> "getScreenshot", field |-> "base64"]}

\* handlers/api/export-session.tsx line 88: the data argument the result endpoint hands
\* to handleResult, which is what the promise of the step resolves with.
resultData == Undefined

\* Lines 110-115 and 119-124: res && res.dom (res.base64) selects the snapshot,
\* anything else the empty result ('' or null).
observationResult(res, field) ==
    IF res.type = "object" /\ res[field] THEN "snapshot" ELSE "empty"

\* getSimplifiedDOM / captureScreenshot of the remote adapter up to the await of
\* sendCommand (lines 109 and 118).
ObserveStart(oc) ==
    /\ oc \in ObservationCalls
    /\ remoteCall.pc # "awaiting"
    /\ sendCommand(oc.op, oc.actionName)
    /\ remoteCall' = IF activeStream = NoStream
                     THEN [NoRemoteCall EXCEPT !.op = oc.op, !.pc = "threw", !.field = oc.field]
                     ELSE [NoRemoteCall EXCEPT !.op = oc.op, !.pc = "awaiting",
                                               !.stepId = stepCounter, !.field = oc.field,
                                               !.before = lastObservation[oc.field]]
    /\ UNCHANGED <<activeStream, streamState, connected>>
    /\ UNCHANGED <<browserVars, loopVars, executorVars, consoleVars, functionVars, registryVars,
                   gcVars, clientVars>>

\* The promise of the command has settled and the call goes on after its await
\* (lines 110-115 and 119-124); a rejection leaves the call as an exception.
ObserveReturn ==
    LET c == remoteCall
        res == resultData
        got == observationResult(res, c.field) IN
    /\ c.pc = "awaiting"
    /\ promise[c.stepId] \notin {"none", "pending"}
    /\ IF promise[c.stepId] = "resolved"
       THEN /\ remoteCall' = [c EXCEPT !.pc = "returned", !.result = got]
            /\ lastObservation' = IF got = "snapshot"
                                  THEN [lastObservation EXCEPT ![c.field] = TRUE]
                                  ELSE lastObservation
       ELSE /\ remoteCall' = [c EXCEPT !.pc = "threw"]
            /\ UNCHANGED lastObservation
    /\ lastCall' = Call(c.op, IF promise[c.stepId] = "resolved" THEN "returned" ELSE "threw")
    /\ UNCHANGED <<activeStream, pendingRequests, timers, timeoutMs, stepCounter, promise,
                   settleCalls, outbox, streamState, connected>>
    /\ UNCHANGED <<consoleErrors, errorCount, consoleReturned, consoleReported, consoleRepeated>>
    /\ UNCHANGED <<browserVars, loopVars, executorVars, functionVars, registryVars, gcVars,
                   clientVars>>

\* The request's abort listener of the connect endpoint; the stream is closed and
\* what was queued on it is gone.
StreamAbort(c) ==
    /\ streamState[c] = "open"
    /\ streamState' = [streamState EXCEPT ![c] = "aborted"]
    /\ disconnect
    /\ markLocalExecutorDisconnected
    /\ lastCall' = Call("disconnect", "returned")
    /\ outbox' = {f \in outbox : f.conn # c}
    /\ UNCHANGED <<stepCounter, timeoutMs>>
    /\ UNCHANGED <<now, nonRemoteNonRegistryVars>>

\* POST /api/executor/result with a run.action_result frame.
PostResult(stepId, ok) ==
    /\ handleResult(stepId, ok)
    /\ UNCHANGED <<activeStream, timeoutMs, stepCounter, outbox, streamState, connected>>
    /\ UNCHANGED nonRemoteVars

\* An armed timer expires.
TimerFires(stepId) ==
    /\ stepId \in timers
    /\ timerCallback(stepId)
    /\ lastCall' = Call("timeout", "rejected")
    /\ UNCHANGED <<activeStream, timeoutMs, stepCounter, outbox, streamState, connected>>
    /\ UNCHANGED nonRemoteVars

InitRemote ==
    /\ activeStream = NoStream
    /\ pendingRequests = {}
    /\ timers = {}
    /\ timeoutMs = [s \in StepIds |-> 0]
    /\ stepCounter = 0
    /\ promise = [s \in StepIds |-> "none"]
    /\ settleCalls = [s \in StepIds |-> 0]
    /\ outbox = {}
    /\ streamState = [c \in Conns |-> "new"]
    /\ connected = FALSE
    /\ lastCall = Call("none", "none")
    /\ remoteCall = NoRemoteCall

\* ------------------------------------------------------- BrowserManager
Sessions == 1..MaxSessions
Calls == 1..MaxCalls
Browsers == 1..MaxBrowsers
NoHandle == 0
\* Page URLs: Blank is about:blank, which is also how an absent url argument is written.
Blank == 0
Urls == 1..MaxUrls

\* A browser id not yet handed out by puppeteer.launch.
NoBrowser == [status |-> "none", sid |-> 0, headless |-> TRUE, mode |-> TRUE,
              url |-> Blank, pageClosed |-> FALSE,
              installed |-> FALSE,     \* its session record has been put in the map
              lastActivity |-> 0,      \* session.lastActivity, a clock reading
              lastUsed |-> 0]          \* when a method of the manager last worked on the session

\* A call slot with no invocation in it.
IdleCall == [op |-> "none", pc |-> "idle", sid |-> 0, url |-> Blank, headless |-> TRUE,
             capturedUrl |-> Blank, handle |-> NoHandle, result |-> NoHandle,
             overlapped |-> FALSE,
             reused |-> FALSE,        \* getPage: the call took the reuse path (lines 88-95)
             restarted |-> FALSE,     \* getPage: the call took the restart path (56-70)
             action |-> "none",       \* executeAction: action.action
             outcome |-> "none"]      \* what an observation or executeAction call came to

\* A call that has returned (pc "done") or thrown (pc "failed"): its local variables
\* are gone, what stays is which call it was and the page it returned.
\* A getPage that executeAction awaits (lazy init, line 283) hands control back to
\* executeAction when it returns, and its exception leaves executeAction as well.
Returned(c, pc, result) ==
    IF c.op = "executeAction" /\ pc = "done"
    THEN [c EXCEPT !.pc = "resume", !.handle = NoHandle]
    ELSE [IdleCall EXCEPT !.op = c.op, !.sid = c.sid, !.pc = pc, !.result = result,
                          !.overlapped = c.overlapped, !.reused = c.reused,
                          !.restarted = c.restarted,
                          !.action = c.action,
                          !.outcome = IF c.op = "executeAction" THEN "Error" ELSE "none"]

\* An observation or executeAction call that has returned (pc "done") or thrown
\* (pc "failed") with the given outcome.
Finished(c, pc, outcome) ==
    [IdleCall EXCEPT !.op = c.op, !.sid = c.sid, !.pc = pc, !.action = c.action,
                     !.outcome = outcome]

\* The slot a new invocation takes: the lowest one with no call in progress.
FreeSlot(k) ==
    /\ call[k].pc \in {"idle", "done", "failed"}
    /\ \A j \in Calls : j < k => call[j].pc \notin {"idle", "done", "failed"}

\* A call that is between its invocation and its return or throw.
InProgress(k) == call[k].pc \notin {"idle", "done", "failed"}

\* Browsers that were launched and on which browser.close() has not run.
Running == {b \in Browsers : browser[b].status = "running"}
RunningFor(s) == {b \in Running : browser[b].sid = s}

\* The id puppeteer.launch hands out next (browsers are numbered as they are launched).
NextBrowser == Cardinality({b \in Browsers : browser[b].status # "none"}) + 1

\* resolveHeadlessMode(requestedHeadless)
resolveHeadlessMode(requestedHeadless) ==
    IF ~requestedHeadless /\ displayMissing THEN TRUE ELSE requestedHeadless

\* No collectIdle call is in flight.  now is the reading the call took when it began,
\* sid and handle the entry whose browser it is closing, visited the ids its loop has
\* passed, at the clock reading at which the interval timer last fired.
IdleSweep == [pc |-> "idle", now |-> 0, sid |-> 0, handle |-> NoHandle, visited |-> {}, at |-> 0]

\* await session.browser.close(): the browser process and its page are gone, and
\* nothing of it can be observed any more.
closeBrowser(br, b) ==
    [br EXCEPT ![b] = [NoBrowser EXCEPT !.status = "closed", !.pageClosed = TRUE]]

\* A browser as puppeteer.launch({headless: mode}) returns it, launched by call c;
\* headless is the value the session record will carry for it.
launched(c, mode) ==
    [status |-> "running", sid |-> c.sid, headless |-> c.headless, mode |-> mode,
     url |-> Blank, pageClosed |-> FALSE, installed |-> FALSE, lastActivity |-> 0,
     lastUsed |-> 0]

\* Variant of getPage that launches a fresh browser although a live session exists.
getPageResumeRelaunches(c, h) ==
    IF h # NoHandle /\ browser[h].pageClosed
    THEN [c EXCEPT !.pc = "closeDead", !.handle = h]
    ELSE [c EXCEPT !.pc = "launch", !.handle = NoHandle]

\* getPage lines 72-106: from the local `session` = h to the next await or the return.
getPageResume(c, h) ==
    IF h # NoHandle /\ browser[h].pageClosed
    THEN [c EXCEPT !.pc = "closeDead", !.handle = h]
    ELSE IF h # NoHandle
         THEN IF c.url # Blank /\ c.url # browser[h].url
              THEN [c EXCEPT !.pc = "navigate", !.handle = h, !.reused = TRUE]
              ELSE Returned([c EXCEPT !.reused = TRUE], "done", h)
         ELSE [c EXCEPT !.pc = "launch", !.handle = NoHandle]

\* session.lastActivity = Date.now() on the record of browser h.
touch(h) == [browser EXCEPT ![h].lastActivity = now, ![h].lastUsed = now]

\* Lines 60-65: what session.page.url() yields for the capture.  On a page that is
\* gone the call either still returns the last URL or throws, and the catch leaves
\* capturedUrl undefined; about:blank is turned into undefined as well.
pageUrl(h) ==
    IF browser[h].pageClosed THEN {browser[h].url, Blank} ELSE {browser[h].url}

\* getPage(sessionId, url, headless) from its invocation to its first await (or return).
getPageStart(k, s, url, headless) ==
    LET eff == resolveHeadlessMode(headless)
        h == sessions[s]
        others == {j \in Calls \ {k} :
                     InProgress(j) /\ call[j].op = "getPage" /\ call[j].sid = s}
        c == [IdleCall EXCEPT !.op = "getPage", !.sid = s, !.url = url, !.headless = eff,
                              !.overlapped = (others # {})]
        marked == [j \in Calls |->
                     IF j \in others THEN [call[j] EXCEPT !.overlapped = TRUE] ELSE call[j]]
    IN  /\ FreeSlot(k)
        /\ IF h # NoHandle /\ browser[h].headless # eff
           THEN \E captured \in pageUrl(h) :
                    call' = [marked EXCEPT ![k] =
                               [c EXCEPT !.pc = "closeMismatch", !.handle = h,
                                         !.restarted = TRUE,
                                         !.capturedUrl = captured]]
           ELSE call' = [marked EXCEPT ![k] = getPageResume(c, h)]
        /\ browser' = IF h # NoHandle /\ browser[h].headless = eff /\ ~browser[h].pageClosed
                      THEN touch(h) ELSE browser
        /\ UNCHANGED <<sessions, displayMissing>>
        /\ UNCHANGED nonBrowserVars

\* Line 67-70: the old browser's close() has completed; drop the map entry and launch.
getPageCloseMismatch(k) ==
    /\ call[k].pc = "closeMismatch"
    /\ browser' = closeBrowser(browser, call[k].handle)
    /\ sessions' = [sessions EXCEPT ![call[k].sid] = NoHandle]
    /\ call' = [call EXCEPT ![k].pc = "launch", ![k].handle = NoHandle]
    /\ UNCHANGED displayMissing
    /\ UNCHANGED nonBrowserVars

\* Line 80-85: the dead browser's close() has completed (or thrown); drop the entry and launch.
getPageCloseDead(k) ==
    /\ call[k].pc = "closeDead"
    /\ browser' = closeBrowser(browser, call[k].handle)
    /\ sessions' = [sessions EXCEPT ![call[k].sid] = NoHandle]
    /\ call' = [call EXCEPT ![k].pc = "launch", ![k].handle = NoHandle]
    /\ UNCHANGED displayMissing
    /\ UNCHANGED nonBrowserVars

\* Line 92-94: session.page.goto(url) on the existing page has completed or thrown.
getPageNavigate(k, ok) ==
    LET h == call[k].handle IN
    /\ call[k].pc = "navigate"
    /\ ok => ~browser[h].pageClosed
    /\ IF ok
       THEN /\ browser' = [browser EXCEPT ![h].url = call[k].url]
            /\ call' = [call EXCEPT ![k] = Returned(call[k], "done", h)]
       ELSE /\ call' = [call EXCEPT ![k] = Returned(call[k], "failed", NoHandle)]
            /\ UNCHANGED browser
    /\ UNCHANGED <<sessions, displayMissing>>
    /\ UNCHANGED nonBrowserVars

LaunchOutcomes == {"ok", "missing x server", "error"}

\* Line 100-127: puppeteer.launch has resolved or rejected.
getPageLaunch(k, outcome) ==
    LET c == call[k] IN
    /\ c.pc = "launch"
    /\ IF outcome = "ok"
       THEN /\ NextBrowser \in Browsers
            /\ browser' = [browser EXCEPT ![NextBrowser] = launched(c, c.headless)]
            /\ call' = [call EXCEPT ![k].pc = "setup", ![k].handle = NextBrowser]
       ELSE /\ call' = [call EXCEPT ![k] =
                          IF outcome = "missing x server" /\ ~c.headless
                          THEN [c EXCEPT !.pc = "relaunch"]
                          ELSE Returned(c, "failed", NoHandle)]
            /\ UNCHANGED browser
    /\ UNCHANGED <<sessions, displayMissing>>
    /\ UNCHANGED nonBrowserVars

\* Line 117-121: the headless retry of puppeteer.launch has resolved or rejected.
getPageRelaunch(k, ok) ==
    LET c == call[k] IN
    /\ c.pc = "relaunch"
    /\ IF ok
       THEN /\ NextBrowser \in Browsers
            /\ browser' = [browser EXCEPT ![NextBrowser] = launched(c, TRUE)]
            /\ call' = [call EXCEPT ![k].pc = "setup", ![k].handle = NextBrowser]
       ELSE /\ call' = [call EXCEPT ![k] = Returned(c, "failed", NoHandle)]
            /\ UNCHANGED browser
    /\ UNCHANGED <<sessions, displayMissing>>
    /\ UNCHANGED nonBrowserVars

\* A target that leaves the captured URL out.
targetUrlArgumentOnly(c) == c.url

\* The url the new page is sent to: the url argument or, failing that, the captured one.
targetUrl(c) == IF c.url # Blank THEN c.url ELSE c.capturedUrl

\* Line 157-165: make the session record and put it in the map.
install(k, br) ==
    /\ sessions' = [sessions EXCEPT ![call[k].sid] = call[k].handle]
    /\ browser' = [br EXCEPT ![call[k].handle].installed = TRUE,
                             ![call[k].handle].lastActivity = now,
                             ![call[k].handle].lastUsed = now]
    /\ call' = [call EXCEPT ![k] = Returned(call[k], "done", call[k].handle)]

\* Line 129-147: browser.pages(), newPage() and setViewport() have completed or one
\* of them has thrown; without a target url the record is installed at once.
getPageSetup(k, ok) ==
    LET c == call[k] IN
    /\ c.pc = "setup"
    /\ ok => ~browser[c.handle].pageClosed
    /\ IF ~ok
       THEN /\ call' = [call EXCEPT ![k] = Returned(c, "failed", NoHandle)]
            /\ UNCHANGED <<sessions, browser>>
       ELSE IF targetUrl(c) # Blank
       THEN /\ call' = [call EXCEPT ![k].pc = "goto"]
            /\ UNCHANGED <<sessions, browser>>
       ELSE install(k, browser)
    /\ UNCHANGED displayMissing
    /\ UNCHANGED nonBrowserVars

\* Line 148-165: page.goto(targetUrl) on the new page has completed or thrown.
getPageGoto(k, ok) ==
    LET c == call[k] IN
    /\ c.pc = "goto"
    /\ ok => ~browser[c.handle].pageClosed
    /\ IF ok
       THEN install(k, [browser EXCEPT ![c.handle].url = targetUrl(c)])
       ELSE /\ call' = [call EXCEPT ![k] = Returned(c, "failed", NoHandle)]
            /\ UNCHANGED <<browser, sessions>>
    /\ UNCHANGED displayMissing
    /\ UNCHANGED nonBrowserVars

\* closeSession(sessionId) up to its await.
closeSessionStart(k, s) ==
    LET h == sessions[s]
        c == [IdleCall EXCEPT !.op = "closeSession", !.sid = s] IN
    /\ FreeSlot(k)
    /\ call' = [call EXCEPT ![k] = IF h # NoHandle
                                   THEN [c EXCEPT !.pc = "closing", !.handle = h]
                                   ELSE Returned(c, "done", NoHandle)]
    /\ UNCHANGED <<sessions, browser, displayMissing>>
    /\ UNCHANGED nonBrowserVars

\* closeSession after browser.close(): delete the map entry.
closeSessionFinish(k) ==
    /\ call[k].pc = "closing"
    /\ browser' = closeBrowser(browser, call[k].handle)
    /\ sessions' = [sessions EXCEPT ![call[k].sid] = NoHandle]
    /\ call' = [call EXCEPT ![k] = Returned(call[k], "done", NoHandle)]
    /\ UNCHANGED displayMissing
    /\ UNCHANGED nonBrowserVars

\* sessions.delete(sessionId): whatever handle the map holds for the id now.
evict(s) == [sessions EXCEPT ![s] = NoHandle]

\* getSimplifiedDOM(sessionId) up to its await (lines 183-194).
getSimplifiedDOMStart(k, s) ==
    LET h == sessions[s]
        c == [IdleCall EXCEPT !.op = "getSimplifiedDOM", !.sid = s] IN
    /\ FreeSlot(k)
    /\ IF h = NoHandle
       THEN /\ call' = [call EXCEPT ![k] = Finished(c, "done", "empty")]
            /\ UNCHANGED sessions
       ELSE IF browser[h].pageClosed
       THEN /\ sessions' = evict(s)
            /\ call' = [call EXCEPT ![k] = Finished(c, "done", "empty")]
       ELSE /\ call' = [call EXCEPT ![k] = [c EXCEPT !.pc = "evaluate", !.handle = h]]
            /\ UNCHANGED sessions
    /\ browser' = IF h # NoHandle /\ ~browser[h].pageClosed
                  THEN [browser EXCEPT ![h].lastUsed = now] ELSE browser
    /\ UNCHANGED displayMissing
    /\ UNCHANGED nonBrowserVars

\* A catch block that returns the fallback text and leaves the entry in the map.
getSimplifiedDOMFinishKeepsEntry(k, ok) ==
    LET c == call[k] IN
    /\ c.pc = "evaluate"
    /\ ok => ~browser[c.handle].pageClosed
    /\ call' = [call EXCEPT ![k] = Finished(c, "done", IF ok THEN "observed" ELSE "empty")]
    /\ UNCHANGED <<sessions, browser, displayMissing>>
    /\ UNCHANGED nonBrowserVars

\* Lines 194-219: page.evaluate has resolved or thrown.
getSimplifiedDOMFinish(k, ok) ==
    LET c == call[k] IN
    /\ c.pc = "evaluate"
    /\ ok => ~browser[c.handle].pageClosed
    /\ IF ok
       THEN /\ call' = [call EXCEPT ![k] = Finished(c, "done", "observed")]
            /\ UNCHANGED sessions
       ELSE /\ sessions' = evict(c.sid)
            /\ call' = [call EXCEPT ![k] = Finished(c, "done", "empty")]
    /\ UNCHANGED <<browser, displayMissing>>
    /\ UNCHANGED nonBrowserVars

\* captureScreenshot(sessionId, outputDir, stepLabel) up to its first await, the
\* dynamic import of node:fs (lines 223-231).
captureScreenshotStart(k, s) ==
    LET h == sessions[s]
        c == [IdleCall EXCEPT !.op = "captureScreenshot", !.sid = s] IN
    /\ FreeSlot(k)
    /\ call' = [call EXCEPT ![k] = IF h = NoHandle
                                   THEN Finished(c, "done", "empty")
                                   ELSE [c EXCEPT !.pc = "import", !.handle = h]]
    /\ UNCHANGED <<sessions, browser, displayMissing>>
    /\ UNCHANGED nonBrowserVars

\* Lines 232-247: after the imports, the isClosed check on the session read at entry.
captureScreenshotCheck(k) ==
    LET c == call[k] IN
    /\ c.pc = "import"
    /\ IF browser[c.handle].pageClosed
       THEN /\ sessions' = evict(c.sid)
            /\ call' = [call EXCEPT ![k] = Finished(c, "done", "empty")]
       ELSE /\ call' = [call EXCEPT ![k].pc = "screenshot"]
            /\ UNCHANGED sessions
    /\ UNCHANGED <<browser, displayMissing>>
    /\ UNCHANGED nonBrowserVars

\* Lines 247-260: page.screenshot has resolved or thrown.
captureScreenshotFinish(k, ok) ==
    LET c == call[k] IN
    /\ c.pc = "screenshot"
    /\ ok => ~browser[c.handle].pageClosed
    /\ IF ok
       THEN /\ call' = [call EXCEPT ![k] = Finished(c, "done", "observed")]
            /\ browser' = touch(c.handle)
            /\ UNCHANGED sessions
       ELSE /\ sessions' = evict(c.sid)
            /\ call' = [call EXCEPT ![k] = Finished(c, "done", "empty")]
            /\ UNCHANGED browser
    /\ UNCHANGED displayMissing
    /\ UNCHANGED nonBrowserVars

\* executeAction lines 287-299, with `session` = h: return without a session, throw
\* on a closed page, otherwise start the action on the page.
executeActionOn(k, c, h) ==
    IF h = NoHandle
    THEN /\ call' = [call EXCEPT ![k] = Finished(c, "done", "skipped")]
         /\ UNCHANGED <<sessions, browser>>
    ELSE IF browser[h].pageClosed
    THEN /\ sessions' = evict(c.sid)
         /\ browser' = touch(h)
         /\ call' = [call EXCEPT ![k] = Finished(c, "failed", "SessionLostError")]
    ELSE /\ call' = [call EXCEPT ![k] = [c EXCEPT !.pc = "acting", !.handle = h]]
         /\ browser' = touch(h)
         /\ UNCHANGED sessions

\* executeAction(sessionId, action, headless) up to its first await: the lazy
\* getPage of a navigate without a session (lines 276-285), or the action itself.
executeActionStart(k, s, a, url, headless) ==
    LET c == [IdleCall EXCEPT !.op = "executeAction", !.sid = s, !.action = a,
                              !.url = IF a = "navigate" THEN url ELSE Blank] IN
    /\ FreeSlot(k)
    /\ IF sessions[s] = NoHandle /\ a = "navigate" /\ url # Blank
       THEN /\ call' = [call EXCEPT ![k] =
                          getPageResume([c EXCEPT !.headless = resolveHeadlessMode(headless)],
                                        NoHandle)]
            /\ UNCHANGED <<sessions, browser>>
       ELSE executeActionOn(k, c, sessions[s])
    /\ UNCHANGED displayMissing
    /\ UNCHANGED nonBrowserVars

\* Line 284: the lazy getPage has returned; the map is read again.
executeActionResume(k) ==
    /\ call[k].pc = "resume"
    /\ executeActionOn(k, call[k], sessions[call[k].sid])
    /\ UNCHANGED displayMissing
    /\ UNCHANGED nonBrowserVars

\* How the puppeteer calls of the switch (lines 299-329) can end: normally, with a
\* 'Target closed' / 'Session closed' / 'detached Frame' error, or with another error.
ActionOutcomes == {"ok", "target closed", "error"}

\* Lines 299-345: the action's puppeteer calls have completed or thrown.
executeActionFinish(k, outcome) ==
    LET c == call[k] IN
    /\ c.pc = "acting"
    /\ outcome = "ok" => ~browser[c.handle].pageClosed
    /\ outcome = "target closed" => browser[c.handle].pageClosed
    /\ CASE outcome = "ok" ->
              /\ browser' = IF c.action = "navigate" /\ c.url # Blank
                            THEN [browser EXCEPT ![c.handle].url = c.url] ELSE browser
              /\ call' = [call EXCEPT ![k] = Finished(c, "done", "performed")]
              /\ UNCHANGED sessions
         [] outcome = "target closed" ->
              /\ sessions' = evict(c.sid)
              /\ call' = [call EXCEPT ![k] = Finished(c, "failed", "SessionLostError")]
              /\ UNCHANGED browser
         [] OTHER ->
              /\ call' = [call EXCEPT ![k] = Finished(c, "failed", "Error")]
              /\ UNCHANGED <<sessions, browser>>
    /\ UNCHANGED displayMissing
    /\ UNCHANGED nonBrowserVars

\* The page of a running browser closes or crashes (the user closes the window).
PageDies(b) ==
    /\ b \in Running
    /\ ~browser[b].pageClosed
    /\ browser' = [browser EXCEPT ![b].pageClosed = TRUE]
    /\ UNCHANGED <<sessions, call, displayMissing>>
    /\ UNCHANGED nonBrowserVars

InitBrowser ==
    /\ sessions = [s \in Sessions |-> NoHandle]
    /\ browser = [b \in Browsers |-> NoBrowser]
    /\ call = [k \in Calls |-> IdleCall]
    /\ displayMissing \in BOOLEAN
    /\ sweep = IdleSweep

\* ---------------------------------------------------------- idle collector
\* services/browser.server.ts lines 23-24, 41-44 and 357-367.  The clock advances in
\* steps of one collector interval, so a clock reading t stands for t * GC_INTERVAL_MS
\* milliseconds.

\* Line 361: now - session.lastActivity > IDLE_TIMEOUT_MS, for the record of browser h.
isIdle(t, h) == (t - browser[h].lastActivity) * GC_INTERVAL_MS > IDLE_TIMEOUT_MS

\* Lines 360-361: the loop over the map runs on, without suspending, to the next entry
\* that is idle at the reading taken when the sweep began; map is the sessions map as
\* the loop sees it.  The result is the set of states the sweep can be in at its next
\* await (the order of the entries in the map is not modelled), or back at rest.
collectIdleScan(sw, map) ==
    LET idle == {s \in Sessions \ sw.visited : map[s] # NoHandle /\ isIdle(sw.now, map[s])} IN
    IF idle = {}
    THEN {[IdleSweep EXCEPT !.at = sw.at]}
    ELSE {[sw EXCEPT !.pc = "closing", !.sid = s, !.handle = map[s],
                     !.visited = sw.visited \cup {s}] : s \in idle}

\* Lines 41-44 and 358-361: the interval timer fires and collectIdle runs to its first
\* await, or to its end when no entry is idle.
collectIdleStart ==
    /\ sweep.pc = "idle"
    /\ now > sweep.at
    /\ sweep' \in collectIdleScan([sweep EXCEPT !.now = now, !.at = now], sessions)
    /\ UNCHANGED browserVars
    /\ UNCHANGED <<remoteVars, loopVars, executorVars, consoleVars, functionVars, registryVars,
                   awaitVars, clientVars>>

\* Lines 362-363: browser.close() has settled; the entry under the id is deleted and
\* the loop goes on.
collectIdleClosed ==
    /\ sweep.pc = "closing"
    /\ browser' = closeBrowser(browser, sweep.handle)
    /\ sessions' = evict(sweep.sid)
    /\ sweep' \in collectIdleScan(sweep, evict(sweep.sid))
    /\ UNCHANGED <<call, displayMissing>>
    /\ UNCHANGED <<remoteVars, loopVars, executorVars, consoleVars, functionVars, registryVars,
                   awaitVars, clientVars>>

NextBrowserManager ==
    \/ \E k \in Calls, s \in Sessions, u \in {Blank} \cup Urls, h \in BOOLEAN :
          getPageStart(k, s, u, h)
    \/ \E k \in Calls : getPageCloseMismatch(k)
    \/ \E k \in Calls : getPageCloseDead(k)
    \/ \E k \in Calls, ok \in BOOLEAN : getPageNavigate(k, ok)
    \/ \E k \in Calls, o \in LaunchOutcomes : getPageLaunch(k, o)
    \/ \E k \in Calls, ok \in BOOLEAN : getPageRelaunch(k, ok)
    \/ \E k \in Calls, ok \in BOOLEAN : getPageSetup(k, ok)
    \/ \E k \in Calls, ok \in BOOLEAN : getPageGoto(k, ok)
    \/ \E k \in Calls, s \in Sessions : closeSessionStart(k, s)
    \/ \E k \in Calls : closeSessionFinish(k)
    \/ \E b \in Browsers : PageDies(b)

\* The manager as one caller at a time uses it (the adapter calls of one loop run are
\* awaited one after the other): every operation, in call slot 1.
NextManagerCalls ==
    \/ \E s \in Sessions, u \in {Blank} \cup Urls, h \in BOOLEAN : getPageStart(1, s, u, h)
    \/ getPageCloseMismatch(1)
    \/ getPageCloseDead(1)
    \/ \E ok \in BOOLEAN : getPageNavigate(1, ok)
    \/ \E o \in LaunchOutcomes : getPageLaunch(1, o)
    \/ \E ok \in BOOLEAN : getPageRelaunch(1, ok)
    \/ \E ok \in BOOLEAN : getPageSetup(1, ok)
    \/ \E ok \in BOOLEAN : getPageGoto(1, ok)
    \/ \E s \in Sessions : closeSessionStart(1, s)
    \/ closeSessionFinish(1)
    \/ \E s \in Sessions : getSimplifiedDOMStart(1, s)
    \/ \E ok \in BOOLEAN : getSimplifiedDOMFinish(1, ok)
    \/ \E s \in Sessions : captureScreenshotStart(1, s)
    \/ captureScreenshotCheck(1)
    \/ \E ok \in BOOLEAN : captureScreenshotFinish(1, ok)
    \/ \E s \in Sessions, a \in BrowserActions, u \in Urls, h \in BOOLEAN :
          executeActionStart(1, s, a, u, h)
    \/ executeActionResume(1)
    \/ \E o \in ActionOutcomes : executeActionFinish(1, o)
    \/ \E b \in Browsers : PageDies(b)

\* ------------------------------------------------------------ agent loop
\* handlers/api/test-session.tsx (chat turn), handlers/api/replay.tsx (replay),
\* handlers/api/stop-session.tsx (stop endpoint).  A run is the background task
\* one request starts; its pc names the await it is suspended at.

Runs == 1..MaxRuns

\* Rows of the tests table: the row of the chat session and the temporary row a
\* replay inserts under its own replayId.
SessionRow == "session"
ReplayRow == "replay"
\* The id the replay page generates for a replay, when it is not the one the handler
\* generates: no row is ever inserted under it.
ClientReplayId == "client replay"
TestRows == {SessionRow, ReplayRow, ClientReplayId}

NoSkill == "none"
\* Skill names the reasoning step may return: two installed skills (src/skills) and
\* one that has no SKILL.md.
SkillNames == {"standard-login", "stripe-checkout", "unknown-skill"}
\* Environment keys a type_secret action may name: a legacy key, a key that is not
\* set in process.env, and a key that is set.
SecretKeys == {"TEST_USER", "UNSET_KEY", "SET_KEY"}

NoAction == [action |-> "none", arg |-> ""]

\* The AgentAction union, reduced to the fields the loop dispatches on.
AgentActions ==
    [action : {"done", "ask_human", "error", "navigate", "click", "type", "scroll",
               "type_test_account_secret", "run_script"}, arg : {""}]
      \cup [action : {"use_skill"}, arg : SkillNames]
      \cup [action : {"type_secret"}, arg : SecretKeys]

\* Reasoning outputs of the two-request scenario.
TurnActions == [action : {"click", "done"}, arg : {""}]

\* loadSkillInstructions(name) returns text exactly for an installed skill.
loadSkillInstructions(name) == name \in {"standard-login", "stripe-checkout"}

\* process.env[key] is a non-empty string.
secretValue(key) == key = "SET_KEY"

IdleRun ==
    [kind |-> "none", pc |-> "idle",
     disableScreenshots |-> FALSE,      \* process.env.DISABLE_SCREENSHOTS === 'true'
     activeAccount |-> FALSE,           \* the session has a test account bound
     steps |-> 0, i |-> 0,              \* replay: steps.length and the for-loop index
     actionCount |-> 0, stepDone |-> FALSE,
     agentAction |-> NoAction, activeSkillName |-> NoSkill,
     reasonCalls |-> 0,                 \* reason() calls of the current loop
     iteration |-> "none",              \* how the current iteration ended, once known
     stopRequested |-> FALSE,           \* a stop request arrived while the run was in its turn
     exit |-> "none",
     emitted |-> "none",                \* type of the event sent for the terminal condition
     transcript |-> "none",             \* its transcript text: "none", "pending" (built, not
                                        \* yet inserted) or "saved"
     controller |-> FALSE,              \* chat turn: the controller of its event stream is set
     closeCalls |-> 0]                  \* chat turn: controller.close() calls on its stream

\* services/sse.server.ts lines 39-48, close(): the controller is closed and dropped,
\* once.
close(rn) ==
    IF rn.controller
    THEN [rn EXCEPT !.controller = FALSE, !.closeCalls = @ + 1]
    ELSE rn

\* The row whose status a run polls.
row(rn) == IF rn.kind = "replay" THEN ReplayRow ELSE SessionRow

LoopPcs == {"check1", "shot", "dom", "reason", "check2", "validate", "script", "exec", "settle"}
\* From the start of the background task until its loop is left.
TurnPcs == {"prelaunch", "classify", "history", "setRunning",
            "insert", "launch", "initial", "config"} \cup LoopPcs

InLoop(rn) == rn.pc \in LoopPcs

\* test-session.tsx: the code after the while loop starts with the final screenshot.
afterLoop(rn) ==
    [rn EXCEPT !.pc = IF rn.disableScreenshots THEN "save" ELSE "final"]

\* replay.tsx: the header of the for loop over the steps; after the last step the
\* 'Test Run Complete' event is sent and the finally block runs.
nextStep(rn) ==
    IF rn.i < rn.steps
    THEN [rn EXCEPT !.pc = "config"]
    ELSE [rn EXCEPT !.pc = "cleanup", !.exit = "Complete", !.emitted = "done"]

\* The while condition, evaluated when the body ends or continues.
loopTest(rn) ==
    IF rn.kind = "chat"
    THEN IF rn.actionCount < MAX_ACTIONS
         THEN [rn EXCEPT !.pc = "check1", !.agentAction = NoAction, !.iteration = "none"]
         ELSE afterLoop([rn EXCEPT !.exit = "BudgetExhausted"])
    ELSE IF rn.actionCount < MAX_ACTIONS_PER_STEP /\ ~rn.stepDone
         THEN [rn EXCEPT !.pc = "check1", !.agentAction = NoAction, !.iteration = "none"]
         ELSE nextStep([rn EXCEPT !.i = rn.i + 1])

\* actionCount++ followed by continue (or by the end of the body).
countAndContinue(rn, outcome) ==
    loopTest([rn EXCEPT !.actionCount = rn.actionCount + 1, !.iteration = outcome])

\* A stop checkpoint that read 'stopped': the chat loop breaks, the replay returns.
stopped(rn) ==
    IF rn.kind = "chat"
    THEN afterLoop([rn EXCEPT !.exit = "Stopped", !.iteration = "stopped",
                              !.emitted = "error", !.transcript = "pending"])
    ELSE [rn EXCEPT !.pc = "cleanup", !.exit = "Stopped", !.iteration = "stopped",
                    !.emitted = "error"]

\* An awaited call rejected: control passes to the catch block, which sends the
\* error event; the chat turn's catch then inserts the error message (and what the
\* turn had collected in agentFullText is dropped).
thrown(rn) ==
    IF rn.kind = "chat"
    THEN [rn EXCEPT !.pc = "catch", !.exit = "Exception",
                    !.iteration = IF InLoop(rn) THEN "exception" ELSE rn.iteration,
                    !.emitted = "error", !.transcript = "pending"]
    ELSE [rn EXCEPT !.pc = "cleanup", !.exit = "Exception",
                    !.iteration = IF InLoop(rn) THEN "exception" ELSE rn.iteration,
                    !.emitted = "error"]

\* A failed secret lookup that skips the increment.
typeSecretUncounted(rn) ==
    IF rn.agentAction.arg = "TEST_USER" \/ ~secretValue(rn.agentAction.arg)
    THEN IF rn.kind = "chat"
         THEN loopTest([rn EXCEPT !.iteration = "failed secret lookup"])
         ELSE loopTest([rn EXCEPT !.stepDone = TRUE, !.iteration = "failed secret lookup"])
    ELSE [rn EXCEPT !.pc = "exec"]

\* The type_secret branch: legacy keys and unset variables are reported and
\* counted; in a replay they also end the step.
typeSecret(rn) ==
    IF rn.agentAction.arg = "TEST_USER" \/ ~secretValue(rn.agentAction.arg)
    THEN IF rn.kind = "chat"
         THEN countAndContinue(rn, "failed secret lookup")
         ELSE countAndContinue([rn EXCEPT !.stepDone = TRUE], "failed secret lookup")
    ELSE [rn EXCEPT !.pc = "exec"]

\* Variant of the use_skill branch without the already-active check.
useSkillReloads(rn) ==
    IF loadSkillInstructions(rn.agentAction.arg)
    THEN [rn EXCEPT !.pc = "validate"]
    ELSE IF rn.kind = "chat"
         THEN countAndContinue(rn, "skill-not-found")
         ELSE [rn EXCEPT !.pc = "settle", !.stepDone = TRUE,
                         !.iteration = "skill-not-found"]

\* The use_skill branch up to its first await.
useSkill(rn) ==
    IF rn.activeSkillName = rn.agentAction.arg
    THEN countAndContinue(rn, "loop-breaker note")
    ELSE IF loadSkillInstructions(rn.agentAction.arg)
         THEN [rn EXCEPT !.pc = "validate"]
         ELSE IF rn.kind = "chat"
              THEN countAndContinue(rn, "skill-not-found")
              ELSE [rn EXCEPT !.pc = "settle", !.stepDone = TRUE,
                              !.iteration = "skill-not-found"]

\* done, ask_human and error: the chat loop breaks, the replay marks the step done
\* and falls through to the settle delay.
terminalAction(rn) ==
    IF rn.kind = "chat"
    THEN afterLoop([rn EXCEPT
             !.exit = CASE rn.agentAction.action = "done" -> "Done"
                        [] rn.agentAction.action = "ask_human" -> "AskHuman"
                        [] OTHER -> "Error",
             !.activeSkillName = IF rn.agentAction.action = "done"
                                 THEN NoSkill ELSE rn.activeSkillName,
             !.iteration = "terminal action",
             !.emitted = rn.agentAction.action, !.transcript = "pending"])
    ELSE [rn EXCEPT !.pc = "settle", !.stepDone = TRUE, !.iteration = "terminal action",
                    !.emitted = IF rn.agentAction.action = "error" THEN "error" ELSE "step"]

\* The dispatch on the reasoning result, up to its first await.
dispatch(rn) ==
    CASE rn.agentAction.action = "use_skill" -> useSkill(rn)
      [] rn.agentAction.action \in {"done", "ask_human", "error"} -> terminalAction(rn)
      [] rn.agentAction.action = "run_script" -> [rn EXCEPT !.pc = "script"]
      [] rn.agentAction.action = "type_secret" -> typeSecret(rn)
      [] rn.agentAction.action = "type_test_account_secret" ->
            IF rn.kind = "chat" /\ ~rn.activeAccount
            THEN countAndContinue(rn, "failed secret lookup")
            ELSE [rn EXCEPT !.pc = "exec"]
      [] OTHER -> [rn EXCEPT !.pc = "exec"]

\* The action object the loop hands to executionAdapter.executeAction when it awaits
\* the call (pc = "exec").  Its fields are given by where their values are read from.
executeActionArgument(rn) ==
    IF rn.agentAction.action = "type_secret"
    THEN [action |-> "type", x |-> "agentAction.x", y |-> "agentAction.y",
          text |-> "process.env[agentAction.key]"]
    ELSE IF rn.kind = "chat" /\ rn.agentAction.action = "type_test_account_secret"
    THEN [action |-> "type", x |-> "agentAction.x", y |-> "agentAction.y",
          text |-> "activeAccount[agentAction.field]"]
    ELSE [action |-> rn.agentAction.action, x |-> "agentAction.x", y |-> "agentAction.y",
          text |-> "agentAction.text"]

\* POST /api/test/:sessionId passed its checks and started the background task, which
\* runs up to its first await: getPage when the message holds a URL and the adapter
\* has no session yet, classifyIntent otherwise.
AcceptMessage(r, launch, account, noShots) ==
    /\ run[r].pc \in {"idle", "done"}
    /\ run' = [run EXCEPT ![r] = [IdleRun EXCEPT !.kind = "chat", !.controller = TRUE,
                                     !.pc = IF launch THEN "prelaunch" ELSE "classify",
                                     !.activeAccount = account,
                                     !.disableScreenshots = noShots]]
    /\ UNCHANGED tests
    /\ UNCHANGED nonLoopVars

\* executionAdapter.getPage (and the url update) returned or threw.
PrelaunchReturns(r, ok) ==
    /\ run[r].pc = "prelaunch"
    /\ run' = [run EXCEPT ![r] = IF ok THEN [run[r] EXCEPT !.pc = "classify"]
                                 ELSE thrown(run[r])]
    /\ UNCHANGED tests
    /\ UNCHANGED nonLoopVars

\* classifyIntent returned (it never throws).
Classified(r, verdict) ==
    /\ run[r].pc = "classify"
    /\ run' = [run EXCEPT ![r] = [run[r] EXCEPT
                  !.pc = IF verdict = "refuse" THEN "refused" ELSE "history"]]
    /\ UNCHANGED tests
    /\ UNCHANGED nonLoopVars

\* Refusal: the message is saved, the status is set back to idle, the stream is
\* closed and the task returns through its finally block.
Refused(r) ==
    /\ run[r].pc = "refused"
    /\ tests' = [tests EXCEPT ![SessionRow] = "idle"]
    /\ run' = [run EXCEPT ![r] = [close(run[r]) EXCEPT !.pc = "finally", !.exit = "Refused",
                                                       !.emitted = "error",
                                                       !.transcript = "saved"]]
    /\ UNCHANGED nonLoopVars

\* The chat history was read from the database.
HistoryLoaded(r) ==
    /\ run[r].pc = "history"
    /\ run' = [run EXCEPT ![r] = [run[r] EXCEPT !.pc = "setRunning"]]
    /\ UNCHANGED tests
    /\ UNCHANGED nonLoopVars

\* update tests set status = 'running', then the loop variables are initialised
\* and the while condition is evaluated for the first time.
SetRunning(r) ==
    /\ run[r].pc = "setRunning"
    /\ tests' = [tests EXCEPT ![SessionRow] = "running"]
    /\ run' = [run EXCEPT ![r] = loopTest(run[r])]
    /\ UNCHANGED nonLoopVars

\* First stop checkpoint, at the top of the loop body.
Check1(r) ==
    /\ run[r].pc = "check1"
    /\ run' = [run EXCEPT ![r] =
                  IF tests[row(run[r])] = "stopped"
                  THEN stopped(run[r])
                  ELSE [run[r] EXCEPT !.pc = IF run[r].disableScreenshots
                                             THEN "dom" ELSE "shot"]]
    /\ UNCHANGED tests
    /\ UNCHANGED nonLoopVars

\* captureScreenshot returned or threw.
ShotReturns(r, ok) ==
    /\ run[r].pc = "shot"
    /\ run' = [run EXCEPT ![r] = IF ok THEN [run[r] EXCEPT !.pc = "dom"]
                                 ELSE thrown(run[r])]
    /\ UNCHANGED tests
    /\ UNCHANGED nonLoopVars

\* getSimplifiedDOM returned or threw; getConsoleErrors is synchronous.
DomReturns(r, ok) ==
    /\ run[r].pc = "dom"
    /\ run' = [run EXCEPT ![r] = IF ok THEN [run[r] EXCEPT !.pc = "reason"]
                                 ELSE thrown(run[r])]
    /\ UNCHANGED tests
    /\ UNCHANGED nonLoopVars

\* reason() returned an action (its failures come back as an error action).
Reason(r, a) ==
    /\ run[r].pc = "reason"
    /\ run' = [run EXCEPT ![r] = [run[r] EXCEPT !.pc = "check2", !.agentAction = a,
                                                !.reasonCalls = run[r].reasonCalls + 1]]
    /\ UNCHANGED tests
    /\ UNCHANGED nonLoopVars

\* A second checkpoint that dispatches without looking at the status.
Check2Blind(r) ==
    /\ run[r].pc = "check2"
    /\ run' = [run EXCEPT ![r] = dispatch(run[r])]
    /\ UNCHANGED tests
    /\ UNCHANGED nonLoopVars

\* Second stop checkpoint, after reasoning, followed by the dispatch.
Check2(r) ==
    /\ run[r].pc = "check2"
    /\ run' = [run EXCEPT ![r] = IF tests[row(run[r])] = "stopped"
                                 THEN stopped(run[r])
                                 ELSE dispatch(run[r])]
    /\ UNCHANGED tests
    /\ UNCHANGED nonLoopVars

\* Variant of the validation handling that reports the failure and goes on with the
\* loop, as the skill-not-found branch of the chat turn does.
ValidationReturnsContinues(r, valid) ==
    /\ run[r].pc = "validate"
    /\ run' = [run EXCEPT ![r] =
          IF valid
          THEN IF run[r].kind = "chat"
               THEN countAndContinue([run[r] EXCEPT
                        !.activeSkillName = run[r].agentAction.arg], "skill load")
               ELSE [run[r] EXCEPT !.pc = "settle", !.iteration = "skill load",
                                   !.activeSkillName = run[r].agentAction.arg]
          ELSE countAndContinue(run[r], "validation failed")]
    /\ UNCHANGED tests
    /\ UNCHANGED nonLoopVars

\* executeSkillValidation returned (it never throws).  A failed validation breaks
\* the chat loop and ends the replay step.
ValidationReturns(r, valid) ==
    /\ run[r].pc = "validate"
    /\ run' = [run EXCEPT ![r] =
          IF run[r].kind = "chat"
          THEN IF valid
               THEN countAndContinue([run[r] EXCEPT
                        !.activeSkillName = run[r].agentAction.arg], "skill load")
               ELSE afterLoop([run[r] EXCEPT !.exit = "SkillValidationError",
                                             !.iteration = "validation failed",
                                             !.emitted = "error", !.transcript = "pending"])
          ELSE IF valid
               THEN [run[r] EXCEPT !.pc = "settle", !.iteration = "skill load",
                                   !.activeSkillName = run[r].agentAction.arg]
               ELSE [run[r] EXCEPT !.pc = "settle", !.stepDone = TRUE,
                                   !.iteration = "validation failed",
                                   !.emitted = "error"]]
    /\ UNCHANGED tests
    /\ UNCHANGED nonLoopVars

\* executeSkillScript returned (it never throws).
ScriptReturns(r) ==
    /\ run[r].pc = "script"
    /\ run' = [run EXCEPT ![r] = countAndContinue(run[r], "script run")]
    /\ UNCHANGED tests
    /\ UNCHANGED nonLoopVars

\* Variant of the executeAction call site that swallows a rejection and goes back to
\* the top of the loop to try again.
ExecReturnsRetries(r, ok) ==
    /\ run[r].pc = "exec"
    /\ run' = [run EXCEPT ![r] =
                  IF ok THEN [run[r] EXCEPT !.pc = "settle", !.iteration = "browser action"]
                  ELSE loopTest(run[r])]
    /\ UNCHANGED tests
    /\ UNCHANGED nonLoopVars

\* executionAdapter.executeAction returned or threw.
ExecReturns(r, ok) ==
    /\ run[r].pc = "exec"
    /\ run' = [run EXCEPT ![r] =
                  IF ok THEN [run[r] EXCEPT !.pc = "settle", !.iteration = "browser action"]
                  ELSE thrown(run[r])]
    /\ UNCHANGED tests
    /\ UNCHANGED nonLoopVars

\* The settle delay elapsed: history push and actionCount++ at the end of the body.
Settled(r) ==
    /\ run[r].pc = "settle"
    /\ run' = [run EXCEPT ![r] = countAndContinue(run[r], run[r].iteration)]
    /\ UNCHANGED tests
    /\ UNCHANGED nonLoopVars

\* The final captureScreenshot of a chat turn returned or threw.
FinalShot(r, ok) ==
    /\ run[r].pc = "final"
    /\ run' = [run EXCEPT ![r] = IF ok THEN [run[r] EXCEPT !.pc = "save"]
                                 ELSE thrown(run[r])]
    /\ UNCHANGED tests
    /\ UNCHANGED nonLoopVars

\* The agent message (agentFullText) was inserted into the transcript.
Saved(r) ==
    /\ run[r].pc = "save"
    /\ run' = [run EXCEPT ![r] = [run[r] EXCEPT !.pc = "finally",
                  !.transcript = IF run[r].transcript = "pending" THEN "saved" ELSE "none"]]
    /\ UNCHANGED tests
    /\ UNCHANGED nonLoopVars

\* The catch block saved its error message.
CatchSaved(r) ==
    /\ run[r].pc = "catch"
    /\ run' = [run EXCEPT ![r] = [run[r] EXCEPT !.pc = "finally", !.transcript = "saved"]]
    /\ UNCHANGED tests
    /\ UNCHANGED nonLoopVars

\* The background task of a chat turn is over; what is known of it is how it ended
\* and the state of its stream.
ended(rn) ==
    [IdleRun EXCEPT !.kind = "chat", !.pc = "done", !.exit = rn.exit, !.emitted = rn.emitted,
                    !.transcript = rn.transcript, !.controller = rn.controller,
                    !.closeCalls = rn.closeCalls]

\* finally of a chat turn: status back to idle, stream closed.
Finally(r) ==
    /\ run[r].pc = "finally"
    /\ tests' = [tests EXCEPT ![SessionRow] = "idle"]
    /\ run' = [run EXCEPT ![r] = ended(close(run[r]))]
    /\ UNCHANGED nonLoopVars

\* The insert of the agent message (lines 491-496) rejected.
SaveRejects(r) ==
    /\ run[r].pc = "save"
    /\ run' = [run EXCEPT ![r] = thrown(run[r])]
    /\ UNCHANGED tests
    /\ UNCHANGED nonLoopVars

\* The insert of the catch block (lines 510-514) rejected: the finally block runs and
\* the exception goes on to the task's promise.
CatchRejects(r) ==
    /\ run[r].pc = "catch"
    /\ run' = [run EXCEPT ![r] = [run[r] EXCEPT !.pc = "finally"]]
    /\ UNCHANGED tests
    /\ UNCHANGED nonLoopVars

\* The update of the finally block (line 517) rejected: the block is left at its
\* await and the task ends with the rejection.
FinallyRejects(r) ==
    /\ run[r].pc = "finally"
    /\ run' = [run EXCEPT ![r] = ended(run[r])]
    /\ UNCHANGED tests
    /\ UNCHANGED nonLoopVars

\* POST /api/replay with n prompt steps started its background task, which first
\* inserts its temporary row under a fresh replayId.
AcceptReplay(r, n, noShots) ==
    /\ run[r].pc \in {"idle", "done"}
    /\ run' = [run EXCEPT ![r] = [IdleRun EXCEPT !.kind = "replay", !.pc = "insert",
                                     !.steps = n, !.disableScreenshots = noShots]]
    /\ UNCHANGED tests
    /\ UNCHANGED nonLoopVars

\* insert into tests (status 'running'); a failed insert is logged and ignored.
InsertRow(r, ok) ==
    /\ run[r].pc = "insert"
    /\ tests' = IF ok THEN [tests EXCEPT ![ReplayRow] = "running"] ELSE tests
    /\ run' = [run EXCEPT ![r] = [run[r] EXCEPT !.pc = "launch"]]
    /\ UNCHANGED nonLoopVars

\* getPage(replayId, url, isHeadless) returned or threw; then the load delay.
LaunchReturns(r, ok) ==
    /\ run[r].pc = "launch"
    /\ run' = [run EXCEPT ![r] =
                  IF ~ok THEN thrown(run[r])
                  ELSE IF run[r].disableScreenshots THEN nextStep(run[r])
                  ELSE [run[r] EXCEPT !.pc = "initial"]]
    /\ UNCHANGED tests
    /\ UNCHANGED nonLoopVars

\* The initial captureScreenshot of a replay returned or threw.
InitialShot(r, ok) ==
    /\ run[r].pc = "initial"
    /\ run' = [run EXCEPT ![r] = IF ok THEN nextStep(run[r]) ELSE thrown(run[r])]
    /\ UNCHANGED tests
    /\ UNCHANGED nonLoopVars

\* The configuration of a step was read: without an API key or a model the for
\* loop is left, otherwise the step's loop starts with fresh counters.
ConfigRead(r, ok) ==
    /\ run[r].pc = "config"
    /\ run' = [run EXCEPT ![r] =
                  IF ok
                  THEN loopTest([run[r] EXCEPT !.actionCount = 0, !.stepDone = FALSE,
                                               !.activeSkillName = NoSkill,
                                               !.agentAction = NoAction,
                                               !.reasonCalls = 0, !.iteration = "none",
                                               !.emitted = "none"])
                  ELSE [run[r] EXCEPT !.pc = "cleanup", !.exit = "ConfigError",
                                      !.emitted = "error"]]
    /\ UNCHANGED tests
    /\ UNCHANGED nonLoopVars

\* finally of a replay: the temporary row is deleted.
Cleanup(r) ==
    /\ run[r].pc = "cleanup"
    /\ tests' = [tests EXCEPT ![ReplayRow] = "absent"]
    /\ run' = [run EXCEPT ![r] = [run[r] EXCEPT !.pc = "closing"]]
    /\ UNCHANGED nonLoopVars

\* closeSession(replayId) returned; the stream is closed.
CloseReturns(r) ==
    /\ run[r].pc = "closing"
    /\ run' = [run EXCEPT ![r] = [IdleRun EXCEPT !.kind = "replay", !.pc = "done",
                                                 !.exit = run[r].exit,
                                                 !.emitted = run[r].emitted]]
    /\ UNCHANGED tests
    /\ UNCHANGED nonLoopVars

\* POST /api/stop/:sessionId: update tests set status = 'stopped' where id = :sessionId
\* (no row, no change).
StopSession(id) ==
    /\ tests' = IF tests[id] = "absent" THEN tests ELSE [tests EXCEPT ![id] = "stopped"]
    /\ run' = [r \in Runs |->
                  IF row(run[r]) = id /\ run[r].pc \in TurnPcs /\ tests[id] # "absent"
                  THEN [run[r] EXCEPT !.stopRequested = TRUE] ELSE run[r]]
    /\ UNCHANGED nonLoopVars

\* ------------------------------------------------------------ replay page
\* The Replay component (part_002): its currentReplayId state and its Stop button.

NoReplayId == "null"

\* Nothing is being replayed.
IdleClient == [currentReplayId |-> NoReplayId, stopPosted |-> FALSE]

\* Lines 137-153, startReplay up to its fetch: newReplayId = `replay-${Date.now()}` is
\* stored and sent in the request body.  The handler builds its own id from its own
\* clock reading (replay.tsx line 36) and never reads the body's replayId; id is
\* ReplayRow when the two readings coincide and ClientReplayId otherwise.
startReplay(id) ==
    /\ id \in {ReplayRow, ClientReplayId}
    /\ replayClient.currentReplayId = NoReplayId
    /\ \A r \in Runs : run[r].kind # "replay" \/ run[r].pc = "done"
    /\ replayClient' = [currentReplayId |-> id, stopPosted |-> FALSE]
    /\ UNCHANGED <<remoteVars, browserVars, loopVars, executorVars, consoleVars, functionVars,
                   registryVars, gcVars, awaitVars>>

\* Lines 252-259, stopReplay: POST /api/stop/${currentReplayId}, handled as by
\* StopSession.
stopReplay ==
    LET id == replayClient.currentReplayId IN
    /\ id # NoReplayId
    /\ ~replayClient.stopPosted
    /\ replayClient' = [replayClient EXCEPT !.stopPosted = TRUE]
    /\ tests' = IF tests[id] = "absent" THEN tests ELSE [tests EXCEPT ![id] = "stopped"]
    /\ run' = [r \in Runs |->
                  IF row(run[r]) = id /\ run[r].pc \in TurnPcs /\ tests[id] # "absent"
                  THEN [run[r] EXCEPT !.stopRequested = TRUE] ELSE run[r]]
    /\ UNCHANGED <<remoteVars, browserVars, executorVars, consoleVars, functionVars,
                   registryVars, gcVars, awaitVars>>

\* Lines 168-170 and 244-248: the response stream has ended and the page is idle again.
replayOver ==
    /\ replayClient.currentReplayId # NoReplayId
    /\ \E r \in Runs : run[r].kind = "replay" /\ run[r].pc = "done"
    /\ replayClient' = IdleClient
    /\ UNCHANGED <<remoteVars, browserVars, loopVars, executorVars, consoleVars, functionVars,
                   registryVars, gcVars, awaitVars>>

InitLoop ==
    /\ tests = [id \in TestRows |-> IF id = SessionRow THEN "idle" ELSE "absent"]
    /\ replayClient = IdleClient
    /\ run = [r \in Runs |-> IdleRun]

\* One request at a time: a chat turn or a replay.
NextLoop ==
    \/ \E launch, account, noShots \in BOOLEAN : AcceptMessage(1, launch, account, noShots)
    \/ \E ok \in BOOLEAN : PrelaunchReturns(1, ok)
    \/ \E v \in {"proceed", "use_skill", "refuse"} : Classified(1, v)
    \/ Refused(1)
    \/ HistoryLoaded(1)
    \/ SetRunning(1)
    \/ Check1(1)
    \/ \E ok \in BOOLEAN : ShotReturns(1, ok)
    \/ \E ok \in BOOLEAN : DomReturns(1, ok)
    \/ \E a \in AgentActions : Reason(1, a)
    \/ Check2(1)
    \/ \E valid \in BOOLEAN : ValidationReturns(1, valid)
    \/ ScriptReturns(1)
    \/ \E ok \in BOOLEAN : ExecReturns(1, ok)
    \/ Settled(1)
    \/ \E ok \in BOOLEAN : FinalShot(1, ok)
    \/ Saved(1)
    \/ CatchSaved(1)
    \/ Finally(1)
    \/ \E n \in 1..MaxReplaySteps, noShots \in BOOLEAN : AcceptReplay(1, n, noShots)
    \/ \E ok \in BOOLEAN : InsertRow(1, ok)
    \/ \E ok \in BOOLEAN : LaunchReturns(1, ok)
    \/ \E ok \in BOOLEAN : InitialShot(1, ok)
    \/ \E ok \in BOOLEAN : ConfigRead(1, ok)
    \/ Cleanup(1)
    \/ CloseReturns(1)
    \/ \E id \in TestRows : StopSession(id)

\* A replay started from the replay page, which may stop it.
NextReplay ==
    \/ \E id \in {ReplayRow, ClientReplayId} : startReplay(id)
    \/ \E n \in 1..MaxReplaySteps : AcceptReplay(1, n, TRUE)
    \/ \E ok \in BOOLEAN : InsertRow(1, ok)
    \/ \E ok \in BOOLEAN : LaunchReturns(1, ok)
    \/ \E ok \in BOOLEAN : ConfigRead(1, ok)
    \/ Check1(1)
    \/ \E ok \in BOOLEAN : DomReturns(1, ok)
    \/ \E a \in TurnActions : Reason(1, a)
    \/ Check2(1)
    \/ \E ok \in BOOLEAN : ExecReturns(1, ok)
    \/ Settled(1)
    \/ Cleanup(1)
    \/ CloseReturns(1)
    \/ stopReplay
    \/ replayOver

\* The actions that end a turn, and one that does not.
ExitActions == [action : {"click", "done", "ask_human", "error"}, arg : {""}]

\* One chat turn at a time, with a store whose calls may reject where the turn ends:
\* the insert of the agent message and the calls of the catch and finally blocks.
NextExits ==
    \/ \E launch \in BOOLEAN : AcceptMessage(1, launch, FALSE, FALSE)
    \/ \E ok \in BOOLEAN : PrelaunchReturns(1, ok)
    \/ \E v \in {"proceed", "refuse"} : Classified(1, v)
    \/ Refused(1)
    \/ HistoryLoaded(1)
    \/ SetRunning(1)
    \/ Check1(1)
    \/ \E ok \in BOOLEAN : ShotReturns(1, ok)
    \/ \E ok \in BOOLEAN : DomReturns(1, ok)
    \/ \E a \in ExitActions : Reason(1, a)
    \/ Check2(1)
    \/ \E ok \in BOOLEAN : ExecReturns(1, ok)
    \/ Settled(1)
    \/ \E ok \in BOOLEAN : FinalShot(1, ok)
    \/ Saved(1)
    \/ SaveRejects(1)
    \/ CatchSaved(1)
    \/ CatchRejects(1)
    \/ Finally(1)
    \/ FinallyRejects(1)
    \/ StopSession(SessionRow)

\* Several requests for the same chat session, each with its own background task.
NextTurns ==
    \/ \E r \in Runs, launch \in BOOLEAN : AcceptMessage(r, launch, FALSE, FALSE)
    \/ \E r \in Runs, ok \in BOOLEAN : PrelaunchReturns(r, ok)
    \/ \E r \in Runs, v \in {"proceed", "refuse"} : Classified(r, v)
    \/ \E r \in Runs : Refused(r)
    \/ \E r \in Runs : HistoryLoaded(r)
    \/ \E r \in Runs : SetRunning(r)
    \/ \E r \in Runs : Check1(r)
    \/ \E r \in Runs, ok \in BOOLEAN : ShotReturns(r, ok)
    \/ \E r \in Runs, ok \in BOOLEAN : DomReturns(r, ok)
    \/ \E r \in Runs, a \in TurnActions : Reason(r, a)
    \/ \E r \in Runs : Check2(r)
    \/ \E r \in Runs, ok \in BOOLEAN : ExecReturns(r, ok)
    \/ \E r \in Runs : Settled(r)
    \/ \E r \in Runs, ok \in BOOLEAN : FinalShot(r, ok)
    \/ \E r \in Runs : Saved(r)
    \/ \E r \in Runs : CatchSaved(r)
    \/ \E r \in Runs : Finally(r)
    \/ StopSession(SessionRow)

\* ------------------------------------------------------- specifications
\* ------------------------------------------------------- local executor
\* bin/local-executor.ts: the process behind the executor stream.  It reads the
\* frames of the stream in order and handles one frame at a time.

RunIds == 1..MaxRunIds
NoRun == 0

\* The module variable page: null, or the page with the run whose goto loaded the
\* document it shows (NoRun: blank) and the run whose click, type or scroll acted on
\* it last (NoRun: nothing since the load).
NoPage == [open |-> FALSE, loadedBy |-> NoRun, actedBy |-> NoRun]
BlankPage == [open |-> TRUE, loadedBy |-> NoRun, actedBy |-> NoRun]

\* What is known of the run.action_result posts for the last command handled: its
\* run id, the ok flag of the last post, whether the primitive was performed, and how
\* many times sendResult('run.action_result', ...) was called for it.
NoResult == [runId |-> NoRun, ok |-> FALSE, performed |-> FALSE, posts |-> 0]

ExecutorActions == {"goto", "getDOM", "getScreenshot"} \cup BrowserActions

\* LocalExecutionAdapter.sendCommand (the frame it sends) for session s.
NextActionFrame(s, a) == [type |-> "run.next_action", runId |-> s, action |-> a]

\* LocalExecutionAdapter.closeSession (the frame it sends) for session s.
StopFrame(s) == [type |-> "run.stop", runId |-> s, action |-> "none"]

\* The server enqueues a command frame for session s on the executor stream.
DeliverAction(s, a) ==
    /\ Len(inbox) < MaxInbox
    /\ inbox' = Append(inbox, NextActionFrame(s, a))
    /\ UNCHANGED <<executorBrowser, executorPage, currentRunId, sentResult>>
    /\ UNCHANGED nonExecutorVars

\* The server enqueues the stop frame of session s on the executor stream.
DeliverStop(s) ==
    /\ Len(inbox) < MaxInbox
    /\ inbox' = Append(inbox, StopFrame(s))
    /\ UNCHANGED <<executorBrowser, executorPage, currentRunId, sentResult>>
    /\ UNCHANGED nonExecutorVars

\* getBrowserPage(): the one page of the process, launched when there is none.  It
\* takes no run id.
getBrowserPage == IF executorPage.open THEN executorPage ELSE BlankPage

\* The page after the action of frame f was performed on page p.
performed(p, f) ==
    CASE f.action \in {"goto", "navigate"} ->
            [p EXCEPT !.loadedBy = f.runId, !.actedBy = NoRun]
      [] f.action \in {"click", "type", "scroll"} -> [p EXCEPT !.actedBy = f.runId]
      [] OTHER -> p

\* What handleAction's try block can do: complete, throw in puppeteer.launch (taken
\* only when there is no page), or throw in the puppeteer call of the action.
ExecutorOutcomes == {"ok", "launch failed", "action failed"}

\* How a sendResult call can end: the server answered (a status that is not 2xx is
\* logged only), or fetch rejected and sendResult throws.
PostOutcomes == {"answered", "throws"}

\* The run.action_result posts of one handleAction call.  On the way through the try
\* block the primitive, the run.observation post (getDOM and getScreenshot only) and
\* the run.action_result post may throw; each of these ends in the catch block, which
\* posts a result with ok: false.  An exception of that last post leaves handleAction
\* and is swallowed by the read loop.
resultPosts(f, outcome, obsPost, resPost) ==
    LET r == [runId |-> f.runId, ok |-> FALSE, performed |-> outcome = "ok", posts |-> 1] IN
    IF outcome # "ok" THEN r
    ELSE IF f.action \in {"getDOM", "getScreenshot"} /\ obsPost = "throws" THEN r
    ELSE IF resPost = "throws" THEN [r EXCEPT !.posts = 2]
    ELSE [r EXCEPT !.ok = TRUE]

\* handleAction(msg) for the frame at the head of the stream.  A failed launch leaves
\* browser and page as they were; a failed action leaves the page it was tried on.
handleAction(outcome, obsPost, resPost) ==
    /\ inbox # <<>>
    /\ Head(inbox).type = "run.next_action"
    /\ outcome = "launch failed" => ~executorPage.open
    /\ LET f == Head(inbox) IN
       /\ currentRunId' = f.runId
       /\ executorBrowser' = IF outcome = "launch failed" THEN executorBrowser ELSE "running"
       /\ executorPage' = CASE outcome = "launch failed" -> executorPage
                             [] outcome = "action failed" -> getBrowserPage
                             [] OTHER -> performed(getBrowserPage, f)
       /\ sentResult' = resultPosts(f, outcome, obsPost, resPost)
    /\ inbox' = Tail(inbox)
    /\ UNCHANGED nonExecutorVars

\* The run.stop branch of the read loop: the browser is closed whichever run the
\* frame names.
handleStop ==
    /\ inbox # <<>>
    /\ Head(inbox).type = "run.stop"
    /\ executorBrowser' = "none"
    /\ executorPage' = NoPage
    /\ inbox' = Tail(inbox)
    /\ UNCHANGED <<currentRunId, sentResult>>
    /\ UNCHANGED nonExecutorVars

InitExecutor ==
    /\ inbox = <<>>
    /\ executorBrowser = "none"
    /\ executorPage = NoPage
    /\ currentRunId = NoRun
    /\ sentResult = NoResult

NextExecutor ==
    \/ \E s \in RunIds, a \in ExecutorActions : DeliverAction(s, a)
    \/ \E s \in RunIds : DeliverStop(s)
    \/ \E o \in ExecutorOutcomes, obs, res \in PostOutcomes : handleAction(o, obs, res)
    \/ handleStop

\* ------------------------------------------------------- console errors
\* BrowserManager.getConsoleErrors and the page listeners of getPage on one side,
\* LocalExecutionAdapter.handleObservation / getConsoleErrors on the other.

\* The page of browser b logs a console error or raises a page error: the listeners
\* attached by getPage (lines 137-146) push it onto the session's array.
PageConsoleError(b) ==
    /\ b \in Running /\ browser[b].installed /\ ~browser[b].pageClosed
    /\ errorCount < MaxErrors
    /\ errorCount' = errorCount + 1
    /\ consoleErrors' = [consoleErrors EXCEPT ![b] = @ \cup {errorCount + 1}]
    /\ UNCHANGED <<lastObservation, consoleReturned, consoleReported, consoleRepeated>>
    /\ UNCHANGED nonConsoleVars

\* BrowserManager.getConsoleErrors(sessionId): a copy of the array, which is then
\* emptied; [] without a session.
getConsoleErrors(s) ==
    LET h == sessions[s] IN
    /\ returns("in-process", IF h = NoHandle THEN {} ELSE consoleErrors[h])
    /\ consoleErrors' = IF h = NoHandle THEN consoleErrors
                        ELSE [consoleErrors EXCEPT ![h] = {}]
    /\ UNCHANGED <<lastObservation, errorCount>>
    /\ UNCHANGED nonConsoleVars

\* The observation payloads an executor may post: each field present or not
\* (RunObservationMessage).
Observations ==
    [screenshotRef : BOOLEAN, domSnapshot : BOOLEAN,
     consoleErrors : {Absent} \cup {Present(errs) : errs \in SUBSET ErrorIds}]

\* The observations bin/local-executor.ts posts for getDOM and getScreenshot (lines
\* 96 and 103): one snapshot and no console errors.
SnapshotObservations ==
    {d \in Observations : d.screenshotRef # d.domSnapshot /\ ~d.consoleErrors.present}

\* handleObservation(data): each field that is present (truthy) replaces the stored
\* one; an empty array is truthy.
handleObservation(data) ==
    lastObservation' =
        [base64 |-> IF data.screenshotRef THEN TRUE ELSE lastObservation.base64,
         dom |-> IF data.domSnapshot THEN TRUE ELSE lastObservation.dom,
         console |-> IF data.consoleErrors.present THEN data.consoleErrors
                     ELSE lastObservation.console]

\* POST /api/executor/result with a run.observation frame.  The errors it names
\* have been emitted by the executor's page.
PostObservation(data) ==
    /\ data.consoleErrors.list \subseteq 1..errorCount
    /\ handleObservation(data)
    /\ UNCHANGED <<consoleErrors, errorCount, consoleReturned, consoleReported, consoleRepeated>>
    /\ UNCHANGED nonConsoleVars

\* A console error on the executor's page.
ExecutorConsoleError ==
    /\ errorCount < MaxErrors
    /\ errorCount' = errorCount + 1
    /\ UNCHANGED <<consoleErrors, lastObservation, consoleReturned, consoleReported,
                   consoleRepeated>>
    /\ UNCHANGED nonConsoleVars

InitConsole ==
    /\ consoleErrors = [b \in Browsers |-> {}]
    /\ lastObservation = [base64 |-> FALSE, dom |-> FALSE, console |-> Absent]
    /\ errorCount = 0
    /\ consoleReturned = [ad \in Adapters |-> {}]
    /\ consoleReported = [ad \in Adapters |-> {}]
    /\ consoleRepeated = [ad \in Adapters |-> {}]

\* Both adapters side by side: a session is opened in process, pages emit console
\* errors, an executor posts observations, and the loop reads the errors.
NextConsole ==
    \/ \E s \in Sessions, h \in BOOLEAN : getPageStart(1, s, Blank, h)
    \/ getPageLaunch(1, "ok")
    \/ getPageSetup(1, TRUE)
    \/ \E b \in Browsers : PageConsoleError(b)
    \/ \E s \in Sessions : getConsoleErrors(s)
    \/ ExecutorConsoleError
    \/ \E d \in Observations : PostObservation(d)
    \/ GetConsoleErrors

\* The observation primitives of the BrowserManager on a session whose page may
\* die: a session is opened, its page logs errors and may close or become
\* unreachable, and the loop observes it.
NextObserve ==
    \/ \E s \in Sessions, h \in BOOLEAN : getPageStart(1, s, Blank, h)
    \/ getPageLaunch(1, "ok")
    \/ getPageSetup(1, TRUE)
    \/ \E b \in Browsers : PageDies(b)
    \/ \E b \in Browsers : PageConsoleError(b)
    \/ \E s \in Sessions : getConsoleErrors(s)
    \/ \E s \in Sessions : getSimplifiedDOMStart(1, s)
    \/ \E ok \in BOOLEAN : getSimplifiedDOMFinish(1, ok)
    \/ \E s \in Sessions : captureScreenshotStart(1, s)
    \/ captureScreenshotCheck(1)
    \/ \E ok \in BOOLEAN : captureScreenshotFinish(1, ok)

\* ------------------------------------------------------- secrets in the loop
\* handlers/api/test-session.tsx lines 190-195 and 338-474: what one iteration of the
\* chat loop emits, appends to the transcript and to the conversation history, and
\* hands to the adapter, for the actions that type text.  Texts are sequences of
\* their fixed and interpolated parts.

\* Values a secret may have; none is empty.
SecretValues == {"hunter2", "s3cret"}

NoAccount == [bound |-> FALSE, id |-> "", accountKey |-> "", username |-> "", password |-> ""]

\* The test account bound to the session, with the given credentials.
Account(username, password) ==
    [bound |-> TRUE, id |-> "acc-1", accountKey |-> "admin",
     username |-> username, password |-> password]

NoAdapterAction == [action |-> "none", text |-> ""]

\* Reasoning outputs that type text: secrets by reference, and plain text.
TypingActions ==
    [action : {"type_secret"}, arg : SecretKeys, reasoning : {"fill the field"}]
      \cup [action : {"type_test_account_secret"}, arg : {"username", "password"},
            reasoning : {"fill the field"}]
      \cup [action : {"type"}, arg : {"hello"}, reasoning : {"fill the field"}]

\* process.env[key], where value is what SET_KEY is set to.
envLookup(key, value) == IF secretValue(key) THEN value ELSE ""

\* Lines 190-195: the system note about the bound account.
accountNote(account) ==
    IF account.bound
    THEN <<[role |-> "system",
            content |-> <<"Active test account selected for this session: id=", account.id,
                          ", key=", account.accountKey>>]>>
    ELSE <<>>

\* Lines 339-364: actionLabel.
actionLabel(a, account) ==
    CASE a.action = "type" -> <<"Typing ", a.arg>>
      [] a.action = "type_secret" -> <<"Typing secret from env.", a.arg>>
      [] a.action = "type_test_account_secret" ->
            <<"Typing test account ", a.arg, " from selected account ",
              IF account.bound THEN account.accountKey ELSE "<none>">>
      [] OTHER -> <<>>

\* Lines 466-473: the history entry of an executed action.
executedEntry(a, account) ==
    [role |-> "agent", content |-> <<a.reasoning, "Action: ">> \o actionLabel(a, account)]

\* Variant of the iteration whose history entry quotes the text that was typed.
iterationQuotesTypedText(a, value, account) ==
    LET typed == CASE a.action = "type_secret" -> envLookup(a.arg, value)
                   [] a.action = "type_test_account_secret" ->
                         IF a.arg = "username" THEN account.username ELSE account.password
                   [] OTHER -> a.arg
    IN [events |-> <<[type |-> "action", data |-> actionLabel(a, account)]>>,
        transcript |-> <<actionLabel(a, account)>>,
        history |-> accountNote(account)
                      \o <<[role |-> "agent", content |-> <<a.reasoning, "Typed ", typed>>]>>,
        adapter |-> [action |-> "type", text |-> typed]]

\* One iteration with reasoning output a: the events sent, the text added to the
\* transcript, the conversation history the next reasoning call gets, and the action
\* handed to executionAdapter.executeAction.
iteration(a, value, account) ==
    LET label == actionLabel(a, account)
        start == [events |-> <<[type |-> "action", data |-> label]>>,
                  transcript |-> <<label>>,
                  history |-> accountNote(account),
                  adapter |-> NoAdapterAction]
        failed(event, note) ==
            [start EXCEPT !.events = @ \o <<[type |-> "error", data |-> event]>>,
                          !.history = @ \o <<[role |-> "system", content |-> note]>>]
        typed(text) ==
            [start EXCEPT !.adapter = [action |-> "type", text |-> text],
                          !.history = @ \o <<executedEntry(a, account)>>]
    IN CASE a.action = "type_secret" ->
              IF a.arg \in {"TEST_USER", "TEST_USER_PASSWORD"}
              THEN failed(<<"TEST_USER and TEST_USER_PASSWORD are no longer supported.">>,
                          <<"Error: legacy TEST_USER env keys are disabled.">>)
              ELSE IF envLookup(a.arg, value) = ""
              THEN failed(<<"Missing env var: ", a.arg>>,
                          <<"Error: Environment variable ", a.arg, " is not set.">>)
              ELSE typed(envLookup(a.arg, value))
         [] a.action = "type_test_account_secret" ->
              IF ~account.bound
              THEN failed(<<"No active test account selected for this session.">>,
                          <<"Error: no active test account selected.">>)
              ELSE typed(IF a.arg = "username" THEN account.username ELSE account.password)
         [] OTHER -> typed(a.arg)

\* What the reasoning step, the client and the transcript get of an iteration.
Visible(out) == [events |-> out.events, transcript |-> out.transcript, history |-> out.history]

NoOutput == [events |-> <<>>, transcript |-> <<>>, history |-> <<>>, adapter |-> NoAdapterAction]

NoSecretPair ==
    [pc |-> "idle", a |-> [action |-> "none", arg |-> "", reasoning |-> ""],
     valueA |-> "", valueB |-> "", accountA |-> NoAccount, accountB |-> NoAccount,
     outA |-> NoOutput, outB |-> NoOutput]

\* Two runs that get the same reasoning output and differ in nothing but the values
\* of the secrets: the value of the environment variable and the credentials of the
\* bound account.
SecretPairs ==
    {[NoSecretPair EXCEPT !.pc = "ready", !.a = a, !.valueA = vA, !.valueB = vB,
                          !.accountA = IF bound THEN Account(uA, pA) ELSE NoAccount,
                          !.accountB = IF bound THEN Account(uB, pB) ELSE NoAccount] :
        a \in TypingActions, bound \in BOOLEAN,
        vA \in SecretValues, vB \in SecretValues,
        uA \in SecretValues, uB \in SecretValues,
        pA \in SecretValues, pB \in SecretValues}

InitSecrets == secretPair \in SecretPairs

\* Both runs execute the iteration.
IterateBoth ==
    /\ secretPair.pc = "ready"
    /\ secretPair' = [secretPair EXCEPT
                        !.pc = "done",
                        !.outA = iteration(secretPair.a, secretPair.valueA, secretPair.accountA),
                        !.outB = iteration(secretPair.a, secretPair.valueB, secretPair.accountB)]
    /\ UNCHANGED <<parseRun, deploymentMode, routed, nonFunctionVars>>

NextSecrets == IterateBoth

\* ------------------------------------------------------- parsing the model reply
\* services/agent.server.ts parseAction and the ActionSchema it validates against.

\* JavaScript values of a payload's fields: undefined (the field is missing), a
\* string, a number.
Str(s) == [type |-> "string", v |-> s]
Num(n) == [type |-> "number", v |-> n]

\* JavaScript truthiness: undefined, the empty string and 0 are falsy.
truthy(val) ==
    \/ val.type = "string" /\ val.v # ""
    \/ val.type = "number" /\ val.v # "0"

\* The fields a payload may carry.
Fields == {"action", "reasoning", "key", "text", "use_skill", "skill_name",
           "x", "y", "summary", "message"}

\* The object JSON.parse gives for {}.
EmptyPayload == [f \in Fields |-> Undefined]

\* The action variants of the schema that the payloads are drawn for, as the set of
\* <<field, type>> each requires besides the action literal.
ActionLiterals == {"type_secret", "use_skill", "done", "error"}

ActionShape(a) ==
    CASE a = "type_secret" ->
            {<<"key", "string">>, <<"x", "number">>, <<"y", "number">>,
             <<"reasoning", "string">>}
      [] a = "use_skill" -> {<<"skill_name", "string">>, <<"reasoning", "string">>}
      [] a = "done" -> {<<"summary", "string">>, <<"reasoning", "string">>}
      [] a = "error" -> {<<"message", "string">>, <<"reasoning", "string">>}

\* The paths of the issues ActionSchema.parse raises for an object: the discriminator
\* when it names no variant, otherwise every required field that is missing or of
\* another type.
issues(p) ==
    IF p["action"].type # "string" \/ p["action"].v \notin ActionLiterals
    THEN {"action"}
    ELSE {g[1] : g \in {h \in ActionShape(p["action"].v) : p[h[1]].type # h[2]}}

\* What ActionSchema.parse returns for an object without issues: the variant's
\* fields, every other key stripped.
stripped(p) ==
    [f \in Fields |->
        IF f = "action" \/ \E g \in ActionShape(p["action"].v) : g[1] = f
        THEN p[f] ELSE Undefined]

Placeholder == "Model omitted reasoning; auto-filled by parser."

\* The type_secret rewrite without the removal of text.
typeSecretRewriteKeepsText(p) ==
    IF p["action"] = Str("type_secret") /\ ~truthy(p["key"]) /\ truthy(p["text"])
    THEN [p EXCEPT !["key"] = p["text"]]
    ELSE p

\* The three rewrites of the normalization pass, in the order of the source.
typeSecretRewrite(p) ==
    IF p["action"] = Str("type_secret") /\ ~truthy(p["key"]) /\ truthy(p["text"])
    THEN [p EXCEPT !["key"] = p["text"], !["text"] = Undefined]
    ELSE p

reasoningFill(p) ==
    IF truthy(p["action"]) /\ ~truthy(p["reasoning"])
    THEN [p EXCEPT !["reasoning"] = Str(Placeholder)]
    ELSE p

useSkillRewrite(p) ==
    IF truthy(p["use_skill"]) /\ ~truthy(p["action"])
    THEN [p EXCEPT !["action"] = Str("use_skill"), !["skill_name"] = p["use_skill"],
                   !["use_skill"] = Undefined]
    ELSE p

normalize(p) == useSkillRewrite(reasoningFill(typeSecretRewrite(p)))

\* Number of characters of the raw reply that the error message quotes.
SnippetLimit == 200

RawLengths == (SnippetLimit - 1)..(SnippetLimit + MaxOverflow)

\* What JSON.parse makes of the text extracted from the reply: it throws a
\* SyntaxError ("text"), or gives null, another value that is no object ("scalar"),
\* or an object.
Shapes == {"text", "null", "scalar", "object"}

NoDetail == [describes |-> "", paths |-> {}, rawShown |-> 0]

\* The body of the try block: the value it returns or the exception it raises, and
\* the payload handed to ActionSchema.parse when the body got that far.
tryBody(reply) ==
    CASE reply.shape = "text" ->
            [raised |-> "SyntaxError", paths |-> {}, reached |-> FALSE,
             validated |-> EmptyPayload, value |-> EmptyPayload]
      [] reply.shape = "null" ->
            [raised |-> "TypeError", paths |-> {}, reached |-> FALSE,
             validated |-> EmptyPayload, value |-> EmptyPayload]
      [] reply.shape = "scalar" ->
            [raised |-> "ZodError", paths |-> {""}, reached |-> TRUE,
             validated |-> EmptyPayload, value |-> EmptyPayload]
      [] reply.shape = "object" ->
            LET n == normalize(reply.payload)
            IN  IF issues(n) = {}
                THEN [raised |-> "none", paths |-> {}, reached |-> TRUE,
                      validated |-> n, value |-> stripped(n)]
                ELSE [raised |-> "ZodError", paths |-> issues(n), reached |-> TRUE,
                      validated |-> n, value |-> EmptyPayload]

Min(a, b) == IF a < b THEN a ELSE b

\* The catch block's error action.
errorAction(raised, paths, reply) ==
    [threw |-> FALSE,
     action |-> [EmptyPayload EXCEPT !["action"] = Str("error"),
                                     !["message"] = Str("Failed to parse LLM response"),
                                     !["reasoning"] = Str("LLM returned invalid output")],
     detail |-> [describes |-> CASE raised = "ZodError" -> "Validation error"
                                 [] raised = "SyntaxError" -> "JSON Parse error"
                                 [] OTHER -> "LLM returned invalid JSON",
                 paths |-> paths,
                 rawShown |-> Min(reply.len, SnippetLimit)]]

\* A catch block that handles the two named exception classes only.
parseActionRethrows(reply) ==
    LET b == tryBody(reply)
    IN  IF b.raised = "none"
        THEN [threw |-> FALSE, action |-> b.value, detail |-> NoDetail]
        ELSE IF b.raised = "TypeError"
        THEN [threw |-> TRUE, action |-> EmptyPayload, detail |-> NoDetail]
        ELSE errorAction(b.raised, b.paths, reply)

parseAction(reply) ==
    LET b == tryBody(reply)
    IN  IF b.raised = "none"
        THEN [threw |-> FALSE, action |-> b.value, detail |-> NoDetail]
        ELSE errorAction(b.raised, b.paths, reply)

\* The replies parseAction is applied to.  A reply that is no object carries no
\* payload.
Payloads ==
    {[EmptyPayload EXCEPT !["action"] = a, !["reasoning"] = r, !["key"] = k,
                          !["text"] = t, !["use_skill"] = u, !["skill_name"] = sn,
                          !["x"] = x, !["y"] = y, !["summary"] = sm] :
        a \in {Undefined, Str(""), Str("type_secret"), Str("use_skill"), Str("done"),
               Str("unknown_magic")},
        r \in {Undefined, Str(""), Str("why"), Num("7")},
        k \in {Undefined, Str(""), Str("FOO")},
        t \in {Undefined, Str(""), Str("BAR"), Num("7")},
        u \in {Undefined, Str(""), Str("standard-login")},
        sn \in {Undefined, Str("other-skill")},
        x \in {Undefined, Num("7"), Str("7")},
        y \in {Undefined, Num("7")},
        sm \in {Undefined, Str("finished")}}

Replies ==
    {[shape |-> "object", payload |-> p, len |-> n] : p \in Payloads, n \in RawLengths}
    \cup {[shape |-> sh, payload |-> EmptyPayload, len |-> n] :
            sh \in Shapes \ {"object"}, n \in RawLengths}

NoParseRun ==
    [pc |-> "idle", reply |-> [shape |-> "text", payload |-> EmptyPayload, len |-> 0],
     reached |-> FALSE, validated |-> EmptyPayload,
     result |-> [threw |-> FALSE, action |-> EmptyPayload, detail |-> NoDetail]]

InitParse ==
    \E reply \in Replies : parseRun = [NoParseRun EXCEPT !.pc = "ready", !.reply = reply]

\* reason's last statement: return parseAction(responseText).
ParseReply ==
    /\ parseRun.pc = "ready"
    /\ parseRun' = [parseRun EXCEPT
                      !.pc = "done",
                      !.reached = tryBody(parseRun.reply).reached,
                      !.validated = tryBody(parseRun.reply).validated,
                      !.result = parseAction(parseRun.reply)]
    /\ UNCHANGED <<secretPair, deploymentMode, routed, nonFunctionVars>>

NextParse == ParseReply

\* ------------------------------------------------------- executor router
\* services/executor-router.server.ts.

\* Values qaosConfig.deploymentMode is set to: the two modes, their legacy names,
\* and values that are neither (another word, another spelling, the empty string).
ConfiguredModes == {"single", "server", "hybrid", "local", "cloud", "Hybrid", ""}

NoMode == "null"

\* The mapping without the legacy name of hybrid.
normalizeExecutionModeNoLegacy(value) ==
    IF value = "single" \/ value = "server" THEN "single"
    ELSE IF value = "hybrid" THEN "hybrid"
    ELSE NoMode

normalizeExecutionMode(value) ==
    IF value = "single" \/ value = "server" THEN "single"
    ELSE IF value = "local" \/ value = "hybrid" THEN "hybrid"
    ELSE NoMode

resolveExecutionMode ==
    LET mode == normalizeExecutionMode(deploymentMode)
    IN  IF mode # NoMode THEN mode ELSE "single"

\* The adapter objects are named as in the console model: localExecutionAdapter is
\* the executor-backed one, executionAdapter the in-process one.
getExecutionAdapter ==
    IF resolveExecutionMode = "hybrid" THEN "remote" ELSE "in-process"

\* The configuration object is assigned (qaos.config.ts, and the tests per case).
Configure(value) ==
    /\ deploymentMode' = value
    /\ UNCHANGED <<secretPair, parseRun, routed, nonFunctionVars>>

\* A handler asks for the adapter of the request it serves.
Route ==
    /\ Len(routed) < MaxRouted
    /\ routed' = Append(routed, [configured |-> deploymentMode,
                                 mode |-> resolveExecutionMode,
                                 adapter |-> getExecutionAdapter])
    /\ UNCHANGED <<secretPair, parseRun, deploymentMode, nonFunctionVars>>

NextRouter ==
    \/ \E value \in ConfiguredModes : Configure(value)
    \/ Route

\* ------------------------------------------------------- executor registry
\* services/local-executor-registry.server.ts and handlers/api/executor-heartbeat.tsx.

\* Bodies of a POST /api/executor/heartbeat request: none, text that is not JSON,
\* {"connected": true}, {"connected": false}, and JSON whose connected is missing or
\* not a boolean.
HeartbeatBodies == {"empty", "invalid", "connected:true", "connected:false", "other"}

\* POST /api/executor/heartbeat: connected defaults to true and is replaced only by
\* a boolean payload.connected.
Heartbeat(body) ==
    /\ IF body = "connected:false"
       THEN markLocalExecutorDisconnected
       ELSE touchLocalExecutorHeartbeat
    /\ UNCHANGED now
    /\ UNCHANGED <<activeStream, pendingRequests, timers, timeoutMs, stepCounter, promise,
                   settleCalls, outbox, streamState, lastCall>>
    /\ UNCHANGED nonRemoteNonRegistryVars

\* Time passes.
Tick ==
    /\ now < MaxTime
    /\ now' = now + 1
    /\ UNCHANGED lastSeenAt
    /\ UNCHANGED <<remoteVars, nonRemoteNonRegistryVars>>

InitRegistry ==
    /\ lastSeenAt = Never
    /\ now = 0

\* The registry and everything that writes it: the heartbeat endpoint, the connect
\* endpoint and its abort listener.
NextRegistry ==
    \/ \E body \in HeartbeatBodies : Heartbeat(body)
    \/ Tick
    \/ \E c \in Conns : ExecutorConnect(c)
    \/ \E c \in Conns : StreamAbort(c)

\* The remote adapter's observation calls and what answers them: an executor
\* connects, the loop asks for a snapshot, the executor posts observations and
\* results, timers expire and streams drop.
NextSnapshot ==
    \/ \E c \in Conns : ExecutorConnect(c)
    \/ \E c \in Conns : StreamAbort(c)
    \/ \E oc \in ObservationCalls : ObserveStart(oc)
    \/ \E d \in SnapshotObservations : PostObservation(d)
    \/ \E s \in ResultIds, ok \in BOOLEAN : PostResult(s, ok)
    \/ \E s \in StepIds : TimerFires(s)
    \/ ObserveReturn

\* The BrowserManager as the loop uses it over minutes: the loop's calls on a
\* session, the clock, and the idle collector on its interval timer.
NextIdle ==
    \/ \E s \in Sessions, h \in BOOLEAN : getPageStart(1, s, Blank, h)
    \/ getPageCloseDead(1)
    \/ getPageLaunch(1, "ok")
    \/ getPageSetup(1, TRUE)
    \/ \E s \in Sessions : getSimplifiedDOMStart(1, s)
    \/ getSimplifiedDOMFinish(1, TRUE)
    \/ \E s \in Sessions : captureScreenshotStart(1, s)
    \/ captureScreenshotCheck(1)
    \/ captureScreenshotFinish(1, TRUE)
    \/ \E s \in Sessions : executeActionStart(1, s, "click", Blank, TRUE)
    \/ executeActionFinish(1, "ok")
    \/ \E b \in Browsers : PageDies(b)
    \/ Tick
    \/ collectIdleStart
    \/ collectIdleClosed

\* The components in their state after construction.
InitSystem ==
    InitRemote /\ InitRegistry /\ InitBrowser /\ InitLoop /\ InitExecutor /\ InitConsole

\* No function has been given an input.
InitNoParse == parseRun = NoParseRun

InitRouter == deploymentMode = "single" /\ routed = <<>>

InitNoInputs == secretPair = NoSecretPair /\ InitNoParse

Init == InitSystem /\ InitNoInputs /\ InitRouter

\* Only the BrowserManager reads the display variable; the other components are
\* explored from the initial state of a host with a display.
InitWithDisplay == Init /\ ~displayMissing

SpecBrowser == Init /\ [][NextBrowserManager]_vars

SpecManager == Init /\ [][NextManagerCalls]_vars

SpecLoop == InitWithDisplay /\ [][NextLoop]_vars

SpecTurns == InitWithDisplay /\ [][NextTurns]_vars

SpecExits == InitWithDisplay /\ [][NextExits]_vars

SpecReplay == InitWithDisplay /\ [][NextReplay]_vars

SpecExecutor == InitWithDisplay /\ [][NextExecutor]_vars

SpecConsole == InitWithDisplay /\ [][NextConsole]_vars

SpecObserve == InitWithDisplay /\ [][NextObserve]_vars

SpecIdle == InitWithDisplay /\ [][NextIdle]_vars

SpecSnapshot == InitWithDisplay /\ [][NextSnapshot]_vars

SpecRegistry == InitWithDisplay /\ [][NextRegistry]_vars

\* The initial state with the two runs of the iteration drawn.
InitWithSecrets ==
    InitSystem /\ ~displayMissing /\ InitSecrets /\ InitNoParse /\ InitRouter

SpecSecrets == InitWithSecrets /\ [][NextSecrets]_vars

SpecRouter == InitWithDisplay /\ [][NextRouter]_vars

\* The initial state with the raw reply drawn.
InitWithReply ==
    InitSystem /\ ~displayMissing /\ secretPair = NoSecretPair /\ InitParse /\ InitRouter

SpecParse == InitWithReply /\ [][NextParse]_vars

NextRemote ==
    \/ \E c \in Conns : ExecutorConnect(c)
    \/ \E c \in Conns : StreamAbort(c)
    \/ \E s \in ResultIds, ok \in BOOLEAN : PostResult(s, ok)
    \/ \E s \in StepIds : TimerFires(s)
    \/ \E u \in BOOLEAN : GetPage(u)
    \/ CaptureScreenshot
    \/ GetSimplifiedDOM
    \/ GetConsoleErrors
    \/ \E a \in BrowserActions : ExecuteAction(a)
    \/ CloseSession

SpecRemote == InitWithDisplay /\ [][NextRemote]_vars

\* Time passes: an armed timer that is not cleared eventually expires.
SpecRemoteFair == SpecRemote /\ \A s \in StepIds : WF_vars(TimerFires(s))

\* ---------------------------------------------------------------- claims
\* remote adapter

CorrelationVars == <<pendingRequests, timers, timeoutMs, stepCounter, promise, settleCalls, outbox>>

\* Bookkeeping of one step id: resolve/reject was invoked at most once, the map holds
\* the id exactly while its promise is pending, its timer is armed exactly while it
\* is in the map, and the promise is settled exactly when one settle call was made.
SettledOnce(s) ==
    /\ settleCalls[s] <= 1
    /\ (s \in pendingRequests) <=> (promise[s] = "pending")
    /\ (s \in timers) <=> (s \in pendingRequests)
    /\ (settleCalls[s] = 1) <=> (promise[s] \notin {"none", "pending"})
    /\ (s < stepCounter) <=> (promise[s] # "none")

\* C1: every command dispatched by sendCommand is settled exactly once - by a matching
\* handleResult, by its timer or by disconnect() - its entry leaves the pending map at
\* that moment, it is never settled twice, and (time passing) it is never left
\* unsettled forever.
C1_SettledExactlyOnce ==
    /\ [](\A s \in StepIds : SettledOnce(s))
    /\ \A s \in StepIds : (promise[s] = "pending") ~> (settleCalls[s] = 1)

\* Two commands were dispatched; one was answered by the executor and the other was
\* rejected by disconnect(), and nothing is pending any more.
C1_Witness ==
    /\ \E s, t \in StepIds : promise[s] = "resolved" /\ promise[t] = "rejected_disconnected"
    /\ pendingRequests = {} /\ timers = {}

\* C7: with no transport attached executeAction rejects at once with the connectivity
\* error: no pending entry, no timer, no frame, no step id is consumed.
C7_NoTransportRejectsAtOnce ==
    [][\A a \in BrowserActions :
          (activeStream = NoStream /\ lastCall'.op = "executeAction" /\ ExecuteAction(a)) =>
              /\ lastCall' = Call("executeAction", "ConnectivityError")
              /\ UNCHANGED CorrelationVars]_vars

C7_Witness ==
    /\ activeStream = NoStream
    /\ lastCall = Call("executeAction", "ConnectivityError")
    /\ pendingRequests = {} /\ timers = {} /\ outbox = {}

\* An operation of the adapter contract is invoked.
AdapterOperation ==
    \/ \E u \in BOOLEAN : GetPage(u)
    \/ CaptureScreenshot
    \/ GetSimplifiedDOM
    \/ GetConsoleErrors
    \/ \E a \in BrowserActions : ExecuteAction(a)
    \/ CloseSession

\* C8 as stated: with no transport attached every operation of the contract fails
\* with the connectivity error.
C8_EveryOperationFails ==
    [][(activeStream = NoStream /\ AdapterOperation) =>
          lastCall'.outcome = "ConnectivityError"]_vars

\* C8 amended: with no transport attached the operations that dispatch a command
\* (getPage with a URL, captureScreenshot, getSimplifiedDOM, executeAction) fail at
\* once with the connectivity error, while getPage without a URL, getConsoleErrors
\* and closeSession return normally; none of them registers or emits anything.
C8_DispatchingOperationsFail ==
    [][activeStream = NoStream =>
          /\ (GetPage(TRUE) \/ CaptureScreenshot \/ GetSimplifiedDOM
                \/ \E a \in BrowserActions : ExecuteAction(a))
             => (lastCall'.outcome = "ConnectivityError" /\ UNCHANGED CorrelationVars)
          /\ (GetPage(FALSE) \/ GetConsoleErrors \/ CloseSession)
             => (lastCall'.outcome = "returned" /\ UNCHANGED CorrelationVars)]_vars

\* getSimplifiedDOM failed on a detached adapter whose executor had connected and
\* gone away again.
C8_Witness ==
    /\ activeStream = NoStream
    /\ lastCall = Call("getSimplifiedDOM", "ConnectivityError")
    /\ \E c \in Conns : streamState[c] = "aborted"

\* C9: a run.action_result for a pending step id settles that command only (resolved
\* if ok, rejected otherwise) and removes it; every other pending command, its timer
\* and the transport stay as they were.
C9_ResultSettlesOnlyItsStep ==
    [][\A s \in ResultIds, ok \in BOOLEAN :
          (lastCall'.op = "handleResult" /\ s \in pendingRequests /\ PostResult(s, ok)) =>
              /\ pendingRequests' = pendingRequests \ {s}
              /\ timers' = timers \ {s}
              /\ promise'[s] = (IF ok THEN "resolved" ELSE "rejected_failed")
              /\ \A t \in StepIds \ {s} :
                    promise'[t] = promise[t] /\ settleCalls'[t] = settleCalls[t]
              /\ activeStream' = activeStream]_vars

\* A result has just resolved one command while another is still pending with its
\* timer armed.
C9_Witness ==
    /\ lastCall = Call("handleResult", "resolved")
    /\ \E s, t \in StepIds :
          /\ promise[s] = "resolved"
          /\ promise[t] = "pending" /\ t \in pendingRequests /\ t \in timers

\* C10: a result for a step id with no pending command (never allocated, already
\* answered, timed out, or rejected by disconnect) is ignored: nothing is settled and
\* the map, the timers and the transport are unchanged.
C10_UnknownResultIgnored ==
    [][\A s \in ResultIds, ok \in BOOLEAN :
          (/\ lastCall'.op = "handleResult"
           /\ (s \notin StepIds \/ promise[s] # "pending")
           /\ PostResult(s, ok)) =>
              /\ lastCall' = Call("handleResult", "ignored")
              /\ UNCHANGED <<pendingRequests, timers, promise, settleCalls, activeStream>>]_vars

\* A late result was ignored after its command had timed out, while another command
\* is still pending.
C10_Witness ==
    /\ lastCall = Call("handleResult", "ignored")
    /\ \E s \in StepIds : promise[s] = "rejected_timeout"
    /\ pendingRequests # {}


\* The executor has answered step s (ok or not).
Answered(s) == promise[s] \in {"resolved", "rejected_failed"}

\* C11: every dispatched command has a timer armed with its timeout (30000 ms, the
\* default, since no caller passes one) for as long as it is pending; when the timer
\* expires the command is rejected with the timeout error and its entry is removed;
\* a command answered first has its timer cleared and its outcome is never replaced
\* by a timeout; and, time passing, an armed timer does not stay armed forever.
C11_TimeoutPolicy ==
    /\ [](\A s \in StepIds :
            /\ s \in pendingRequests => (s \in timers /\ timeoutMs[s] = DefaultTimeoutMs)
            /\ Answered(s) => s \notin timers)
    /\ [][\A s \in StepIds :
            /\ (lastCall'.op = "timeout" /\ TimerFires(s)) =>
                  /\ promise[s] = "pending"
                  /\ promise'[s] = "rejected_timeout"
                  /\ s \notin pendingRequests' /\ s \notin timers'
            /\ Answered(s) => promise'[s] = promise[s]]_vars
    /\ \A s \in StepIds : (s \in timers) ~> (s \notin pendingRequests)

\* Of two dispatched commands one timed out and the other was answered; no timer is
\* armed any more and the pending map is empty.
C11_Witness ==
    /\ \E s, t \in StepIds : promise[s] = "rejected_timeout" /\ Answered(t)
    /\ lastCall = Call("timeout", "rejected")
    /\ pendingRequests = {} /\ timers = {}
    /\ \A s \in StepIds : timeoutMs[s] = DefaultTimeoutMs

\* C12: when an executor stream aborts, every command pending at that moment is
\* rejected in the same step with the disconnect error (one reject call each), no
\* timer stays armed, the pending map is empty, the transport slot is empty and the
\* registry is marked disconnected.
C12_DisconnectRejectsAll ==
    [][\A c \in Conns :
          (lastCall'.op = "disconnect" /\ StreamAbort(c)) =>
              /\ \A s \in pendingRequests :
                    /\ promise'[s] = "rejected_disconnected"
                    /\ settleCalls'[s] = settleCalls[s] + 1
              /\ pendingRequests' = {}
              /\ timers' = {}
              /\ activeStream' = NoStream
              /\ ~connected']_vars

\* A stream abort has just rejected two outstanding commands at once.
C12_Witness ==
    /\ lastCall = Call("disconnect", "returned")
    /\ \E s, t \in StepIds :
          s # t /\ promise[s] = "rejected_disconnected" /\ promise[t] = "rejected_disconnected"
    /\ pendingRequests = {} /\ timers = {}
    /\ activeStream = NoStream /\ ~connected

\* The executor stream that connected last.
Newest(b) == streamState[b] # "new" /\ \A c \in Conns : c > b => streamState[c] = "new"

\* C13: the executor that connected last is the active transport, and the registry is
\* connected, for as long as its stream is open - whatever happens to the streams
\* that connected before it.
C13_NewestTransportStays ==
    \A b \in Conns :
        (Newest(b) /\ streamState[b] = "open") => (activeStream = b /\ connected)
\* in-process BrowserManager

\* Two getPage calls for one session id that overlapped in time and have both returned.
OverlappedPair(j, k) ==
    /\ j # k
    /\ call[j].op = "getPage" /\ call[k].op = "getPage"
    /\ call[j].sid = call[k].sid
    /\ call[j].pc = "done" /\ call[k].pc = "done"
    /\ call[j].overlapped /\ call[k].overlapped

\* C2: two getPage calls for the same session id that overlap in time converge on one
\* handle: once both have returned, both callers hold the same page and one browser
\* is left running for the session.
C2_OneHandlePerSession ==
    \A j, k \in Calls :
        OverlappedPair(j, k) =>
            /\ call[j].result = call[k].result
            /\ Cardinality(RunningFor(call[j].sid)) <= 1

\* agent loop

\* Awaiting a call the loop body makes: an adapter call, the reasoning step or a
\* skill collaborator.
LoopCallPcs == {"shot", "dom", "reason", "validate", "script", "exec"}

\* C3: one loop instance per session at a time - no two chat requests for the same
\* session are inside the loop body at once, each with its own reasoning or adapter
\* call outstanding.
C3_OneLoopPerSession ==
    Cardinality({r \in Runs : run[r].kind = "chat" /\ run[r].pc \in LoopCallPcs}) <= 1

maxActions(rn) == IF rn.kind = "chat" THEN MAX_ACTIONS ELSE MAX_ACTIONS_PER_STEP

\* Ways an iteration ends when reasoning returned no terminal action, nothing threw,
\* no stop was read and no skill validation failed.
NonTerminalIterations ==
    {"browser action", "skill load", "loop-breaker note", "skill-not-found",
     "script run", "failed secret lookup"}

\* One increment per iteration: before reasoning the counter equals the number of
\* reasoning calls made and is below the budget; after reasoning it is one behind.
CountsIterations(rn) ==
    /\ rn.pc \in {"check1", "shot", "dom", "reason"} =>
           rn.reasonCalls = rn.actionCount /\ rn.actionCount < maxActions(rn)
    /\ rn.pc \in {"check2", "validate", "script", "exec", "settle"} =>
           rn.reasonCalls = rn.actionCount + 1

\* The loop was left and its last iteration ended in one of the given ways.
LoopEndedBy(rn, outcomes) == ~InLoop(rn) /\ rn.iteration \in outcomes

StepEnding == {"skill-not-found", "failed secret lookup"}

Observing == {"shot", "dom"}
Acting == {"validate", "script", "exec"}

\* C5: in each iteration the stop flag is read before the observation is captured and
\* again after reasoning returned, before the dispatch; a read that finds it set
\* leaves the loop as Stopped without counting, changing the active skill or
\* starting an adapter action, a skill validation or a script; observation starts
\* only from a first read that found the flag clear, and acting only from a second.
C5_StopCheckpoints ==
    [][\A r \in Runs :
          /\ (run[r].pc \in {"check1", "check2"} /\ tests[row(run[r])] = "stopped"
                 /\ run'[r] # run[r]) =>
                /\ run'[r].exit = "Stopped"
                /\ ~InLoop(run'[r])
                /\ run'[r].actionCount = run[r].actionCount
                /\ run'[r].activeSkillName = run[r].activeSkillName
          /\ (run'[r].pc \in Observing /\ run[r].pc \notin Observing) =>
                run[r].pc = "check1" /\ tests[row(run[r])] # "stopped"
          /\ (run'[r].pc = "check2" /\ run[r].pc # "check2") => run[r].pc = "reason"
          /\ (run'[r].pc \in Acting /\ run[r].pc \notin Acting) =>
                run[r].pc = "check2" /\ tests[row(run[r])] # "stopped"
      ]_vars

\* The second read found the flag set after reasoning had chosen a click: the turn
\* ended as Stopped with the click undispatched and uncounted.
C5_Witness ==
    \E r \in Runs :
        /\ run[r].exit = "Stopped"
        /\ run[r].agentAction.action = "click"
        /\ run[r].reasonCalls = run[r].actionCount + 1
        /\ run[r].actionCount > 0

\* C6: a stop request that arrives while a chat turn is being processed stays in the
\* status column until a checkpoint of that turn has read it.
C6_StopNeverLost ==
    \A r \in Runs :
        (run[r].kind = "chat" /\ run[r].stopRequested /\ run[r].pc \in TurnPcs) =>
            tests[SessionRow] = "stopped"


\* Where a run can be between a failed skill validation and the end of its loop run:
\* the final screenshot, the save, the catch and finally blocks of a chat turn; the
\* settle delay of a replay step and what follows the step's loop.
AfterFailedValidation == {"final", "save", "catch", "finally", "settle", "config", "cleanup", "closing"}

\* C14: when the validation of the skill named by use_skill fails, the loop ends
\* there - the chat turn breaks with the validation error, the replay step is marked
\* done - the skill does not become the active skill, and until the loop run is over
\* no executeAction call and no skill script is started (nor any further reasoning).
C14_FailedValidationEndsLoop ==
    /\ [][\A r \in Runs :
            (run[r].pc = "validate" /\ ValidationReturns(r, FALSE)) =>
                /\ run'[r].iteration = "validation failed"
                /\ run'[r].activeSkillName = run[r].activeSkillName
                /\ run[r].kind = "chat" =>
                      (run'[r].exit = "SkillValidationError" /\ ~InLoop(run'[r]))
                /\ run[r].kind = "replay" => run'[r].stepDone]_vars
    /\ [](\A r \in Runs :
            run[r].iteration = "validation failed" =>
                /\ run[r].pc \in AfterFailedValidation
                /\ run[r].activeSkillName # run[r].agentAction.arg
                /\ run[r].kind = "chat" => run[r].exit \in {"SkillValidationError", "Exception"}
                /\ run[r].pc = "settle" => run[r].stepDone)

\* A chat turn executed a browser action, then asked for a skill whose validation
\* failed, and is now in its finally block with the validation error as its outcome.
C14_Witness ==
    /\ run[1].kind = "chat" /\ run[1].pc = "finally"
    /\ run[1].iteration = "validation failed"
    /\ run[1].exit = "SkillValidationError"
    /\ run[1].reasonCalls = 2
    /\ run[1].activeSkillName = NoSkill

\* The reasoning step of run r has just asked for the skill that is the active one.
AsksForActiveSkill(r) ==
    /\ run[r].pc = "check2"
    /\ run[r].agentAction.action = "use_skill"
    /\ run[r].agentAction.arg = run[r].activeSkillName

TerminalConditions ==
    {"Done", "AskHuman", "Error", "Stopped", "BudgetExhausted", "SkillValidationError", "Exception"}

\* C16: when a chat turn has ended, the terminal condition its loop ended with was
\* sent as a typed event and its text was inserted into the transcript.
C16_TerminalConditionReported ==
    \A r \in Runs :
        (run[r].kind = "chat" /\ run[r].pc = "done" /\ run[r].exit \in TerminalConditions) =>
            /\ run[r].emitted # "none"
            /\ run[r].transcript = "saved"

\* An awaited adapter call of run r has just rejected (connectivity, timeout,
\* disconnect or session-lost error).
AdapterCallFails(r) ==
    \/ PrelaunchReturns(r, FALSE)
    \/ ShotReturns(r, FALSE)
    \/ DomReturns(r, FALSE)
    \/ ExecReturns(r, FALSE)
    \/ FinalShot(r, FALSE)
    \/ LaunchReturns(r, FALSE)
    \/ InitialShot(r, FALSE)

\* Where a run is while an adapter call or a reasoning call of it is outstanding.
CallPcs == {"prelaunch", "launch", "initial", "shot", "dom", "reason", "exec", "final"}

\* What is left of a run after an exception: the catch and finally blocks.
AfterException == {"catch", "finally", "cleanup", "closing", "done"}

\* C17: an adapter call that rejects takes the run to its catch block: the error is
\* sent as the run's outcome, and from then on the run makes no reasoning call and no
\* adapter call (so the failed command is not sent again) - it only saves the error,
\* cleans up and ends.
C17_AdapterErrorEndsRun ==
    /\ [][\A r \in Runs :
            (run[r].pc \in CallPcs /\ AdapterCallFails(r)) =>
                /\ run'[r].exit = "Exception"
                /\ run'[r].emitted = "error"
                /\ run'[r].pc \in AfterException]_vars
    /\ [][\A r \in Runs :
            (run[r].exit = "Exception" /\ run[r].pc # "done") =>
                /\ run'[r].exit = "Exception"
                /\ run'[r].pc \in AfterException
                /\ run'[r].reasonCalls <= run[r].reasonCalls]_vars

\* A chat turn whose click was rejected by the adapter has saved the error and is in
\* its finally block, one reasoning call made.
C17_Witness ==
    /\ run[1].kind = "chat" /\ run[1].pc = "finally"
    /\ run[1].exit = "Exception" /\ run[1].iteration = "exception"
    /\ run[1].agentAction.action = "click"
    /\ run[1].reasonCalls = 1
    /\ run[1].emitted = "error" /\ run[1].transcript = "saved"

\* The actions executeAction performs on the page of an existing session only.
PointerActions == {"click", "type", "scroll"}

\* Session s has lost its handle: the browser of a session record that was in the
\* map under s has not been closed, and the map has no entry for s any more.
Evicted(s) ==
    /\ sessions[s] = NoHandle
    /\ \E b \in Running : browser[b].sid = s /\ browser[b].installed

\* C18: an executeAction call with click, type or scroll for a session whose handle
\* was lost never returns normally without having performed the action (it throws
\* the session-lost error instead).
C18_ActionOnLostSessionRaises ==
    \A k \in Calls :
        (/\ call[k].op = "executeAction" /\ call[k].action \in PointerActions
         /\ call[k].pc = "done"
         /\ Evicted(call[k].sid)) =>
            call[k].outcome = "performed"

\* C19: whenever the map entry of a session is removed or replaced, the browser of
\* the handle it held has been closed.
C19_ClosedBeforeRemoval ==
    [][\A s \in Sessions :
          (sessions[s] # NoHandle /\ sessions'[s] # sessions[s]) =>
              browser'[sessions[s]].status = "closed"]_vars


\* The session of s is live and was launched in the mode a request for headless
\* resolves to.
LiveWith(s, headless) ==
    /\ sessions[s] # NoHandle
    /\ ~browser[sessions[s]].pageClosed
    /\ browser[sessions[s]].headless = resolveHeadlessMode(headless)

\* C21: getPage on a live session with the same headless mode reuses the handle: no
\* browser is launched or closed, the map keeps its entry, the call navigates exactly
\* when a url is given that differs from the page's url, and what it returns is the
\* page of the existing handle.
C21_ReuseLiveSession ==
    /\ [][\A s \in Sessions, u \in {Blank} \cup Urls, h \in BOOLEAN :
            (getPageStart(1, s, u, h) /\ LiveWith(s, h)) =>
                /\ call'[1].reused
                /\ browser' = browser /\ sessions' = sessions
                /\ (call'[1].pc = "navigate") <=> (u # Blank /\ u # browser[sessions[s]].url)
                /\ call'[1].pc = "navigate" => call'[1].handle = sessions[s]
                /\ call'[1].pc # "navigate" =>
                      (call'[1].pc = "done" /\ call'[1].result = sessions[s])]_vars
    /\ [][(call[1].reused /\ call[1].pc = "navigate" /\ call'[1] # call[1]) =>
                /\ sessions' = sessions
                /\ \A b \in Browsers : browser'[b].status = browser[b].status
                /\ call'[1].pc = "done" =>
                      /\ call'[1].result = call[1].handle
                      /\ browser'[call[1].handle].url = call[1].url]_vars

\* A second getPage has returned the page of the only browser ever launched, after
\* navigating it.
C21_Witness ==
    /\ call[1].op = "getPage" /\ call[1].pc = "done" /\ call[1].reused
    /\ call[1].result = sessions[call[1].sid] /\ call[1].result # NoHandle
    /\ browser[call[1].result].url # Blank
    /\ Cardinality({b \in Browsers : browser[b].status # "none"}) = 1
\* local executor

\* The executor handles a frame of run a in this step.
Handles(a) ==
    /\ inbox # <<>>
    /\ Head(inbox).runId = a
    /\ inbox' = Tail(inbox)

\* Run b has a page of its own on the executor: the document shown was loaded by a
\* command of b.
HasPage(b) == executorPage.open /\ executorPage.loadedBy = b

\* C20 (remote deployment): a command or a run.stop of session A never changes the
\* browser state of another session B - the page B's commands loaded stays open and
\* keeps its document, untouched by A.
C20_SessionsIndependent ==
    [][\A a, b \in RunIds :
          (a # b /\ Handles(a) /\ HasPage(b)) =>
              (executorPage' = executorPage /\ executorBrowser' = executorBrowser)]_vars

\* console errors

\* C22: in both adapters getConsoleErrors is a read-once buffer: no call returns an
\* error that an earlier call of the same adapter has returned.
C22_ConsoleReadOnce ==
    \A ad \in Adapters : consoleRepeated[ad] = {}

\* C23: for every command the executor has handled, sendResult('run.action_result')
\* was called exactly once, and the result says ok exactly when the primitive was
\* performed.
C23_OneResultPerCommand ==
    sentResult # NoResult =>
        /\ sentResult.posts = 1
        /\ sentResult.ok <=> sentResult.performed

\* secrets

\* Every part of every text of the visible outputs.
Parts(visible) ==
    UNION ({{e.data[i] : i \in DOMAIN e.data} : e \in {visible.events[j] : j \in DOMAIN visible.events}}
           \cup {{t[i] : i \in DOMAIN t} : t \in {visible.transcript[j] : j \in DOMAIN visible.transcript}}
           \cup {{h.content[i] : i \in DOMAIN h.content} :
                    h \in {visible.history[j] : j \in DOMAIN visible.history}})

ResolvesSecret(a, account) ==
    \/ a.action = "type_secret" /\ a.arg \notin {"TEST_USER", "TEST_USER_PASSWORD"}
                                /\ secretValue(a.arg)
    \/ a.action = "type_test_account_secret" /\ account.bound

C25_HeartbeatUpdatesRegistry ==
    [][\A body \in HeartbeatBodies :
          Heartbeat(body) =>
              IF body = "connected:false"
              THEN ~connected' /\ lastSeenAt' = lastSeenAt
              ELSE connected' /\ lastSeenAt' = now]_vars

\* The executor was seen by a heartbeat at an earlier time and has since reported
\* itself disconnected; no stream ever connected.
C25_Witness ==
    /\ ~connected
    /\ lastSeenAt # Never /\ lastSeenAt < now
    /\ \A c \in Conns : streamState[c] = "new"

\* ---- C26 ----
\* A type_secret payload in which parseAction has parsed an object.
ParsedTypeSecret ==
    /\ parseRun.pc = "done"
    /\ parseRun.reply.shape = "object"
    /\ parseRun.reply.payload["action"] = Str("type_secret")

\* C26 as stated: a type_secret payload whose text is present and whose key is absent
\* reaches validation with key holding the former text value and with text removed.
C26_TextPresentBecomesKey ==
    (/\ ParsedTypeSecret
     /\ parseRun.reply.payload["text"] # Undefined
     /\ parseRun.reply.payload["key"] = Undefined)
    => /\ parseRun.reached
       /\ parseRun.validated["key"] = parseRun.reply.payload["text"]
       /\ parseRun.validated["text"] = Undefined

\* C26 as amended: a type_secret payload whose text is not empty (truthy) and whose
\* key is absent or empty (falsy) reaches validation with key holding the former
\* text value and with text removed; a payload whose text is empty, or whose key is
\* not, reaches validation with key and text as they were.
C26_TypeSecretTextBecomesKey ==
    ParsedTypeSecret =>
        /\ parseRun.reached
        /\ IF truthy(parseRun.reply.payload["text"]) /\ ~truthy(parseRun.reply.payload["key"])
           THEN /\ parseRun.validated["key"] = parseRun.reply.payload["text"]
                /\ parseRun.validated["text"] = Undefined
           ELSE /\ parseRun.validated["key"] = parseRun.reply.payload["key"]
                /\ parseRun.validated["text"] = parseRun.reply.payload["text"]

\* {action:'type_secret', text:'BAR'} has reached validation as
\* {action:'type_secret', key:'BAR'}.
C26_Witness ==
    /\ ParsedTypeSecret
    /\ parseRun.reply.payload["text"] = Str("BAR")
    /\ parseRun.reply.payload["key"] = Undefined
    /\ parseRun.validated["key"] = Str("BAR")
    /\ parseRun.validated["text"] = Undefined

\* ---- C27 ----
\* C27: a payload {use_skill: name} without an action field reaches validation as
\* {action:'use_skill', skill_name: name}, and parsing it yields the use_skill
\* action for that skill.
C27_UseSkillShorthandParses ==
    (/\ parseRun.pc = "done"
     /\ parseRun.reply.shape = "object"
     /\ parseRun.reply.payload["action"] = Undefined
     /\ parseRun.reply.payload["use_skill"].type = "string"
     /\ parseRun.reply.payload["use_skill"].v # "")
    => /\ parseRun.reached
       /\ parseRun.validated["action"] = Str("use_skill")
       /\ parseRun.validated["skill_name"] = parseRun.reply.payload["use_skill"]
       /\ parseRun.validated["use_skill"] = Undefined
       /\ parseRun.result.action["action"] = Str("use_skill")
       /\ parseRun.result.action["skill_name"] = parseRun.reply.payload["use_skill"]

\* ---- C28 ----
\* The payload that reached validation, with the placeholder as its reasoning.
WithReasoning == [parseRun.validated EXCEPT !["reasoning"] = Str(Placeholder)]

\* C28: a payload written without reasoning that reaches validation with an action
\* carries a reasoning string there, also when the action comes from another
\* rewrite, and is not rejected when the reasoning is all it lacks.
C28_ReasoningFilledBeforeValidation ==
    (/\ parseRun.pc = "done"
     /\ parseRun.reply.shape = "object"
     /\ parseRun.reply.payload["reasoning"] = Undefined
     /\ truthy(parseRun.validated["action"]))
    => /\ parseRun.validated["reasoning"].type = "string"
       /\ issues(WithReasoning) = {} => parseRun.result.action["action"] # Str("error")

\* ---- C29 ----
\* What the error message says of each way a reply can fail.
Describes(reply) ==
    CASE reply.shape = "text" -> "JSON Parse error"
      [] reply.shape = "null" -> "LLM returned invalid JSON"
      [] OTHER -> "Validation error"

\* C29: parseAction does not throw; what it returns passes the schema, and it is
\* either the validated action of the reply or the error action, whose message
\* names the failure (for a validation failure the violated fields) and quotes no
\* more than the first 200 characters of the raw reply.
C29_ParseNeverThrows ==
    parseRun.pc = "done" =>
        /\ ~parseRun.result.threw
        /\ issues(parseRun.result.action) = {}
        /\ IF parseRun.reached /\ issues(parseRun.validated) = {}
           THEN /\ parseRun.result.action = stripped(parseRun.validated)
                /\ parseRun.result.detail = NoDetail
           ELSE /\ parseRun.result.action["action"] = Str("error")
                /\ parseRun.result.action["message"].type = "string"
                /\ parseRun.result.detail.describes = Describes(parseRun.reply)
                /\ (parseRun.reached <=> parseRun.result.detail.paths # {})
                /\ parseRun.result.detail.rawShown <= SnippetLimit
                /\ parseRun.result.detail.rawShown <= parseRun.reply.len
                /\ parseRun.reply.len <= SnippetLimit
                    => parseRun.result.detail.rawShown = parseRun.reply.len

\* JSON null, in a reply longer than the snippet, has come back as the error action
\* quoting 200 characters.
C29_Witness ==
    /\ parseRun.pc = "done"
    /\ parseRun.reply.shape = "null"
    /\ parseRun.reply.len > SnippetLimit
    /\ parseRun.result.action["action"] = Str("error")
    /\ parseRun.result.detail.rawShown = SnippetLimit

\* ---- C30 ----
\* C30: every call resolves 'single' and 'server' to single, 'hybrid' and 'local'
\* to hybrid and any other configured value to single, and gets the executor-backed
\* adapter exactly when the resolved mode is hybrid, the in-process adapter otherwise.
C30_ModeAndAdapter ==
    \A i \in 1..Len(routed) :
        /\ routed[i].configured \in {"single", "server"} => routed[i].mode = "single"
        /\ routed[i].configured \in {"hybrid", "local"} => routed[i].mode = "hybrid"
        /\ routed[i].configured \notin {"single", "server", "hybrid", "local"}
            => routed[i].mode = "single"
        /\ routed[i].adapter = "remote" <=> routed[i].mode = "hybrid"
        /\ routed[i].adapter = "in-process" <=> routed[i].mode # "hybrid"

\* One call under the legacy value 'local' got the executor-backed adapter and a
\* later call under an unknown value got the in-process one.
C30_Witness ==
    /\ Len(routed) = 2
    /\ routed[1].configured = "local" /\ routed[1].adapter = "remote"
    /\ routed[2].configured = "cloud" /\ routed[2].adapter = "in-process"

\* ---- C31 ----
\* C31: whenever a chat turn or a replay calls executeAction for a type_secret or
\* type_test_account_secret action, the adapter gets an action named type with the
\* action's x and y and the resolved value as text, and it never gets an action
\* named type_secret or type_test_account_secret.
C31_SecretsDispatchedAsType ==
    \A r \in Runs :
        run[r].pc = "exec" =>
            LET arg == executeActionArgument(run[r])
            IN  /\ arg.action \notin {"type_secret", "type_test_account_secret"}
                /\ run[r].agentAction.action \in {"type_secret", "type_test_account_secret"}
                    => /\ arg.action = "type"
                       /\ arg.x = "agentAction.x" /\ arg.y = "agentAction.y"
                       /\ arg.text \in {"process.env[agentAction.key]",
                                        "activeAccount[agentAction.field]"}

\* ---- C32 ----
\* The handle of session s has another mode than a request for `headless` resolves to.
MismatchWith(s, headless) ==
    /\ sessions[s] # NoHandle
    /\ browser[sessions[s]].headless # resolveHeadlessMode(headless)

\* The steps of a restarting getPage (call slot 1) that C32 and its amendment share:
\* the call awaits the close of the old browser without touching anything; the
\* close removes the entry; and when the call returns, the map holds the newly
\* launched browser, recorded with the requested mode and showing the url argument
\* or else the captured URL.
RestartSteps ==
    /\ \A s \in Sessions, u \in {Blank} \cup Urls, h \in BOOLEAN :
          (getPageStart(1, s, u, h) /\ MismatchWith(s, h)) =>
              /\ call'[1].pc = "closeMismatch"
              /\ call'[1].handle = sessions[s]
              /\ UNCHANGED <<sessions, browser>>
    /\ (call[1].pc = "closeMismatch" /\ call'[1] # call[1]) =>
          /\ browser'[call[1].handle].status = "closed"
          /\ sessions'[call[1].sid] = NoHandle
          /\ call'[1].pc = "launch"
    /\ (call[1].restarted /\ call[1].pc \in {"setup", "goto"}
        /\ call'[1].pc = "done") =>
          LET new == call'[1].result IN
          /\ new \in Browsers
          /\ browser[new].sid = call[1].sid
          /\ sessions'[call[1].sid] = new
          /\ browser'[new].status = "running"
          /\ browser'[new].headless = call[1].headless
          /\ browser'[new].installed
          /\ browser'[new].url = IF call[1].url # Blank THEN call[1].url
                                 ELSE call[1].capturedUrl

\* C32 as stated: a getPage that finds a handle of another mode captures the page's
\* URL (about:blank counts as none), closes the old browser, launches the new one in
\* the requested mode and navigates it to the url argument or else to the captured
\* URL; when it returns, the map holds only the new handle with the new mode.
C32_RestartInRequestedMode ==
    [][/\ RestartSteps
       /\ \A s \in Sessions, u \in {Blank} \cup Urls, h \in BOOLEAN :
             (getPageStart(1, s, u, h) /\ MismatchWith(s, h)) =>
                 call'[1].capturedUrl = browser[sessions[s]].url
       /\ (call[1].restarted /\ call[1].pc \in {"launch", "relaunch"}
           /\ call'[1].pc = "setup") =>
             browser'[call'[1].handle].mode = call[1].headless]_vars

\* C32 as amended: the URL is captured when the page is live (of a page that is
\* gone the call captures the last URL or none), and the new browser runs in the
\* requested mode unless a headful launch failed for a missing X server, in which
\* case it runs headless while the record carries the requested mode.
C32_RestartWithFallback ==
    [][/\ RestartSteps
       /\ \A s \in Sessions, u \in {Blank} \cup Urls, h \in BOOLEAN :
             (getPageStart(1, s, u, h) /\ MismatchWith(s, h)) =>
                 /\ call'[1].capturedUrl \in {browser[sessions[s]].url, Blank}
                 /\ ~browser[sessions[s]].pageClosed
                     => call'[1].capturedUrl = browser[sessions[s]].url
       /\ (call[1].restarted /\ call[1].pc = "launch" /\ call'[1].pc = "setup") =>
             browser'[call'[1].handle].mode = call[1].headless
       /\ (call[1].restarted /\ call[1].pc = "relaunch" /\ call'[1].pc = "setup") =>
             /\ ~call[1].headless
             /\ browser'[call'[1].handle].mode = TRUE]_vars

\* A restart has returned: the old browser is closed, and the new one has been
\* navigated and is the session's handle.
C32_Witness ==
    /\ call[1].op = "getPage" /\ call[1].pc = "done" /\ call[1].restarted
    /\ call[1].result = 2
    /\ sessions[call[1].sid] = 2
    /\ browser[1].status = "closed"
    /\ browser[2].status = "running" /\ browser[2].url # Blank

\* ---- C33 ----
\* Session s has an entry whose page is closed.
DeadEntry(s) == sessions[s] # NoHandle /\ browser[sessions[s]].pageClosed

\* What C33 and its amendment share: getSimplifiedDOM and captureScreenshot (call
\* slot 1) never throw; on an entry whose page is closed, or whose page fails the
\* evaluate or the screenshot, they delete the entry and return the empty result;
\* and on a session without an entry they return the empty result.
SnapshotsEvict ==
    /\ \A s \in Sessions :
          (getSimplifiedDOMStart(1, s) /\ (DeadEntry(s) \/ sessions[s] = NoHandle)) =>
              /\ sessions'[s] = NoHandle
              /\ call'[1].pc = "done" /\ call'[1].outcome = "empty"
    /\ \A s \in Sessions :
          (captureScreenshotStart(1, s) /\ sessions[s] = NoHandle) =>
              /\ sessions'[s] = NoHandle
              /\ call'[1].pc = "done" /\ call'[1].outcome = "empty"
    /\ (call[1].pc \in {"evaluate", "import", "screenshot"} /\ call'[1] # call[1]
        /\ browser[call[1].handle].pageClosed) =>
          /\ sessions'[call[1].sid] = NoHandle
          /\ call'[1].pc = "done" /\ call'[1].outcome = "empty"
    /\ (call[1].pc \in {"evaluate", "import", "screenshot"} /\ call'[1] # call[1]) =>
          /\ call'[1].pc # "failed"
          /\ call'[1].outcome = "empty" => sessions'[call[1].sid] = NoHandle

SweepPicks(b) == sweep' # sweep /\ sweep'.pc = "closing" /\ sweep'.handle = b

\* The sweep has just come to its end, having begun at the clock reading t.
SweepEnds(t) ==
    /\ sweep' # sweep /\ sweep'.pc = "idle"
    /\ t = IF sweep.pc = "closing" THEN sweep.now ELSE now

\* C34: each idle sweep closes and evicts the sessions whose last-activity timestamp
\* is older than the idle threshold and no other: a browser the sweep picks has a
\* timestamp older than the threshold, a finished sweep leaves no such entry in the
\* map, and a session that getPage, captureScreenshot, getSimplifiedDOM or
\* executeAction has worked on within the threshold is never picked.
C34_SweepSparesUsedSessions ==
    [][/\ \A b \in Browsers : SweepPicks(b) =>
              /\ isIdle(sweep'.now, b)
              /\ (sweep'.now - browser[b].lastUsed) * GC_INTERVAL_MS > IDLE_TIMEOUT_MS
       /\ \A t \in 0..MaxTime : SweepEnds(t) =>
              \A s \in Sessions : sessions'[s] # NoHandle =>
                  (t - browser'[sessions'[s]].lastActivity) * GC_INTERVAL_MS <= IDLE_TIMEOUT_MS]_vars

\* C35: the idle sweep and closeSession remove from the map only the handle they have
\* just closed: when the awaited browser.close() settles and the map holds, under the
\* same id, a handle that getPage has installed in the meantime, that entry stays.
C35_CloseDeletesOwnHandleOnly ==
    [][/\ sweep.pc = "closing" /\ sweep' # sweep =>
              \/ sessions[sweep.sid] \in {NoHandle, sweep.handle}
              \/ sessions'[sweep.sid] = sessions[sweep.sid]
       /\ \A k \in Calls :
              call[k].op = "closeSession" /\ call[k].pc = "closing" /\ call'[k] # call[k] =>
                  \/ sessions[call[k].sid] \in {NoHandle, call[k].handle}
                  \/ sessions'[call[k].sid] = sessions[call[k].sid]]_vars

\* C36: in the remote deployment, when the executor has answered the getDOM or
\* getScreenshot command by posting a run.observation with the snapshot and then an ok
\* run.action_result, the adapter's getSimplifiedDOM / captureScreenshot call returns
\* the snapshot, not the empty result.
C36_RemoteSnapshotReturned ==
    [][/\ remoteCall.pc = "awaiting" /\ remoteCall'.pc = "returned"
       /\ ~remoteCall.before /\ lastObservation[remoteCall.field]
       => remoteCall'.result = "snapshot"]_vars

\* C37: in every reachable state the registry's connected flag agrees with the
\* transport slot of the remote adapter: connected is true exactly when an active
\* transport is registered.
C37_ConnectedIffTransport == connected <=> (activeStream # NoStream)

\* C38: when getPage has launched a new browser and the initial navigation fails, the
\* call fails and no browser is left running unreferenced: after the failed call the
\* map holds the launched browser or the browser has been closed.
C38_FailedNavigationLeavesNoOrphan ==
    [][\A k \in Calls :
          call[k].op = "getPage" /\ call[k].pc = "goto" /\ call'[k].pc = "failed" =>
              \/ sessions'[call[k].sid] = call[k].handle
              \/ browser'[call[k].handle].status # "running"]_vars

\* C39: on every exit path of a chat turn (refusal, Done, AskHuman, Error, Stopped,
\* the budget, an exception from the adapter, the reasoning step or the store) the
\* session's status is set back to idle and the event stream is closed, a second
\* close() having no further effect: when the run ends, the status is idle, the
\* stream's controller has been closed and dropped, and it was closed once.
C39_EveryExitResetsAndCloses ==
    [][\A r \in Runs :
          run[r].kind = "chat" /\ run[r].pc # "done" /\ run'[r].pc = "done" =>
              /\ tests'[SessionRow] = "idle"
              /\ ~run'[r].controller
              /\ run'[r].closeCalls = 1]_vars

\* C40: during a replay, a stop request addressed to the replay id the client
\* generated and sent is the one the replay loop observes: when the page posts its
\* stop while the replay it started is in a loop and its temporary row exists, the
\* status the loop polls becomes stopped and the run is marked to end at its next
\* checkpoint.
C40_ClientStopReachesReplay ==
    [][\A r \in Runs :
          /\ stopReplay
          /\ run[r].kind = "replay" /\ run[r].pc \in LoopPcs
          /\ tests[row(run[r])] # "absent"
          => /\ tests'[row(run[r])] = "stopped"
             /\ run'[r].stopRequested]_vars
====
